---- MODULE Spec2Model ----
(***************************************************************************)
(* NFTMarketplace (src/examples/good/NFTMarketplace.ts): the listing and   *)
(* bid ledgers, platform accounting and the cross-contract verification    *)
(* and transfer calls, as a state machine over the contract's storage.     *)
(*                                                                         *)
(* A u256 is a WordBits-bit unsigned integer; an Address is the same       *)
(* number of bits, written big-endian.  Storage writes are durable as      *)
(* soon as they are executed: a Revert thrown later in the same call does  *)
(* not undo them (spec section 2, Persistent Field Store).                 *)
(***************************************************************************)
EXTENDS Integers, Sequences, FiniteSets, TLC

----------------------------------------------------------------------------
(* Bounds of the model *)

\* width of a stored word and of an address, in bits (the program uses 256)
WordBits == 2
\* the run is observed until the event log holds this many events
MaxEvents == 3
\* the greatest block height the dead man's switch is followed to
MaxBlock == 4
\* width in bits of the words of the dead man's switch (the program uses
\* 256): block heights are 64-bit, so that a height plus a small interval
\* is a word; the width is chosen above that of MaxBlock + 1
SwitchWordBits == 3
\* how many calls of the marketplace may be pending, one inside the other
MaxDepth == 2

----------------------------------------------------------------------------
(* Values *)

U256Max == 2^WordBits - 1
U256 == 0..U256Max

\* an Address is WordBits bits, most significant first
Address == [1..WordBits -> {0, 1}]

\* mutant: no address counts as the null address
isZero_Never(addr) == FALSE

isZero(addr) == \A i \in 1..WordBits : addr[i] = 0

\* u256.fromUint8ArrayBE(addr)
RECURSIVE fromUint8ArrayBE(_, _)
fromUint8ArrayBE(addr, n) ==
    IF n = 0 THEN 0 ELSE 2 * fromUint8ArrayBE(addr, n - 1) + addr[n]

addressToU256(addr) == fromUint8ArrayBE(addr, WordBits)

\* mutant: the word is written out little-endian
u256ToAddress_LittleEndian(val) ==
    [i \in 1..WordBits |-> (val \div (2^(i - 1))) % 2]

\* Address.fromUint8Array(val.toUint8Array(true))
u256ToAddress(val) ==
    [i \in 1..WordBits |-> (val \div (2^(WordBits - i))) % 2]

ACTIVE == 1
INACTIVE == 0

\* mutant: the id counters start at zero
FirstId_Zero == 1 - 1

\* u256.One, the first id of either ledger
FirstId == 1

MAX_ROYALTY_BPS == 1000
MAX_PLATFORM_FEE_BPS == 500

\* no Revert was thrown
OK == "ok"
\* the outcome of a call that has issued a remote call and waits
Pending == "pending"

OverflowMsg == "SafeMath: addition overflow"

\* mutant: the sum is never found too large
AddOverflows_Never(a, b) == FALSE

\* SafeMath.add(a, b) throws when the sum does not fit a u256 ...
AddOverflows(a, b) == a + b > U256Max
\* mutant: the sum is computed and not kept
SafeMathAdd_Dropped(a, b) == a

\* ... and yields the sum otherwise
SafeMathAdd(a, b) == a + b

----------------------------------------------------------------------------
(* Inputs *)

\* the address whose big-endian value is n
AddressOf(n) == [i \in 1..WordBits |-> (n \div (2^(WordBits - i))) % 2]
ZeroAddress == AddressOf(0)

\* Blockchain.tx.sender
Senders == {AddressOf(1), AddressOf(2)}
\* the collection argument: the null address and one collection contract
Collections == {ZeroAddress, AddressOf(U256Max)}
\* the tokenId argument
TokenIds == {1}
\* the price argument: up to the greatest word
Prices == {0, U256Max}
\* the bid amount argument
BidAmounts == {0, 1}
FeeRecipients == {ZeroAddress, AddressOf(1)}
FeeBpsInputs == {MAX_PLATFORM_FEE_BPS, MAX_PLATFORM_FEE_BPS + 1}
\* the newFeeBps argument of setPlatformFee
NewFeeBpsInputs == {0, MAX_PLATFORM_FEE_BPS, MAX_PLATFORM_FEE_BPS + 1}
\* the newRecipient argument of setPlatformFeeRecipient
NewFeeRecipients == {ZeroAddress, AddressOf(2)}
\* the collection argument of the registry operations: a second contract too
RoyaltyCollections == Collections \cup {AddressOf(1)}
\* the royaltyBps / newBps argument
RoyaltyBpsInputs == {250, MAX_ROYALTY_BPS, MAX_ROYALTY_BPS + 1}
\* the royaltyRecipient / newRecipient argument
RoyaltyRecipients == {ZeroAddress, AddressOf(1)}

\* Blockchain.contract.deployer, the account that deployed the marketplace
ContractDeployer == AddressOf(1)

\* this.address, the marketplace's own address
MarketplaceAddress == AddressOf(U256Max - 1)

\* CallResult of an ownerOf call: not successful, or an owner address
OwnerOfResults ==
    {[success |-> FALSE, data |-> ZeroAddress]}
        \cup {[success |-> TRUE, data |-> a] : a \in Senders}
\* CallResult of an isApprovedForAll call
ApprovalResults ==
    {[success |-> FALSE, data |-> FALSE]}
        \cup {[success |-> TRUE, data |-> b] : b \in BOOLEAN}
\* CallResult of a safeTransferFrom call
TransferResults == {[success |-> FALSE], [success |-> TRUE]}

----------------------------------------------------------------------------
(* State *)

VARIABLES
    deployed,
    nextListingId, listingCollectionMap, listingTokenIdMap, listingSellerMap,
    listingPriceMap, listingActiveMap,
    nextBidId, bidCollectionMap, bidTokenIdMap, bidBidderMap, bidAmountMap,
    bidActiveMap,
    collectionRegisteredMap, collectionRoyaltyBpsMap,
    collectionRoyaltyRecipientMap,
    platformFeeBps, platformFeeRecipient, totalVolume, totalListings,
    events,
    last,
    returnedListingIds, returnedBidIds, settledVolume, unsettledVolume,
    quietWrites,
    \* DeadMansSwitch (src/unnamed/part_000): its storage, ...
    switchDeployed,
    lastCheckin, heartbeatInterval, gracePeriod, status, chunkCount,
    triggerBlock, switchOwner, beneficiary,
    slots,
    \* ... the events its last call emitted, the height of the current block
    \* and whether its owner has stopped calling it
    emitted, blockNumber, ownerAway,
    \* the calls of the marketplace that wait for the answer of a remote
    \* call, the innermost last
    stack

listingVars == <<nextListingId, listingCollectionMap, listingTokenIdMap,
                 listingSellerMap, listingPriceMap, listingActiveMap>>
bidVars == <<nextBidId, bidCollectionMap, bidTokenIdMap, bidBidderMap,
             bidAmountMap, bidActiveMap>>
registryVars == <<collectionRegisteredMap, collectionRoyaltyBpsMap,
                  collectionRoyaltyRecipientMap>>
platformVars == <<platformFeeBps, platformFeeRecipient, totalVolume,
                  totalListings>>
\* what the contract stores and emits
storage == <<deployed, listingVars, bidVars, registryVars, platformVars,
             events>>
\* the record of what callers were given back
history == <<returnedListingIds, returnedBidIds, settledVolume,
             unsettledVolume>>
\* what the dead man's switch stores
switchStorage == <<switchDeployed, lastCheckin, heartbeatInterval, gracePeriod,
                   status, chunkCount, triggerBlock, switchOwner, beneficiary,
                   slots>>
switchVars == <<switchStorage, emitted, blockNumber, ownerAway>>
vars == <<storage, last, history, quietWrites, switchVars, stack>>

ZeroMap == [k \in U256 |-> 0]
\* an AddressMemoryMap nothing was written to
ZeroAddressMap == [a \in Address |-> 0]

Init ==
    /\ deployed = FALSE
    /\ nextListingId = 0
    /\ listingCollectionMap = ZeroMap
    /\ listingTokenIdMap = ZeroMap
    /\ listingSellerMap = ZeroMap
    /\ listingPriceMap = ZeroMap
    /\ listingActiveMap = ZeroMap
    /\ nextBidId = 0
    /\ bidCollectionMap = ZeroMap
    /\ bidTokenIdMap = ZeroMap
    /\ bidBidderMap = ZeroMap
    /\ bidAmountMap = ZeroMap
    /\ bidActiveMap = ZeroMap
    /\ collectionRegisteredMap = ZeroAddressMap
    /\ collectionRoyaltyBpsMap = ZeroAddressMap
    /\ collectionRoyaltyRecipientMap = ZeroMap
    /\ platformFeeBps = 0
    /\ platformFeeRecipient = ZeroAddress
    /\ totalVolume = 0
    /\ totalListings = 0
    /\ events = <<>>
    /\ last = [op |-> "none", err |-> OK, ret |-> 0, calls |-> <<>>]
    /\ returnedListingIds = <<>>
    /\ returnedBidIds = <<>>
    /\ settledVolume = 0
    /\ unsettledVolume = 0
    /\ quietWrites = 0
    /\ switchDeployed = FALSE
    /\ lastCheckin = 0
    /\ heartbeatInterval = 0
    /\ gracePeriod = 0
    /\ status = 0
    /\ chunkCount = [i \in 1..32 |-> 0]
    /\ triggerBlock = 0
    /\ switchOwner = [i \in 1..WordBits |-> 0]
    /\ beneficiary = [i \in 1..WordBits |-> 0]
    /\ slots = [k \in {} |-> 0]
    /\ emitted = <<>>
    /\ blockNumber = 0
    /\ ownerAway = FALSE
    /\ stack = <<>>

----------------------------------------------------------------------------
(* Events and remote calls *)

Event(name, data) == [name |-> name, data |-> data]

ListingCreatedEvent(listingId, collection, tokenId, seller, price) ==
    Event("ListingCreated",
          <<listingId, addressToU256(collection), tokenId,
            addressToU256(seller), price>>)
ListingCancelledEvent(listingId) == Event("ListingCancelled", <<listingId>>)
ListingSoldEvent(listingId, buyer, price) ==
    Event("ListingSold", <<listingId, addressToU256(buyer), price>>)
BidPlacedEvent(bidId, collection, tokenId, bidder, amount) ==
    Event("BidPlaced",
          <<bidId, addressToU256(collection), tokenId,
            addressToU256(bidder), amount>>)
BidCancelledEvent(bidId) == Event("BidCancelled", <<bidId>>)
BidAcceptedEvent(bidId, seller) ==
    Event("BidAccepted", <<bidId, addressToU256(seller)>>)
CollectionRegisteredEvent(collection, royaltyBps) ==
    Event("CollectionRegistered", <<addressToU256(collection), royaltyBps>>)

\* the calldata of a Blockchain.call: the callee, the selector, the arguments
RemoteCall(collection, selector, args) ==
    [to |-> addressToU256(collection), selector |-> selector, args |-> args]

ownerOfCall(collection, tokenId) ==
    RemoteCall(collection, "ownerOf", <<tokenId>>)
isApprovedForAllCall(collection, owner) ==
    RemoteCall(collection, "isApprovedForAll",
               <<addressToU256(owner), addressToU256(MarketplaceAddress)>>)
safeTransferFromCall(collection, from, to, tokenId) ==
    RemoteCall(collection, "safeTransferFrom",
               <<addressToU256(from), addressToU256(to), tokenId>>)

\* the outcome of a call: the Revert message (or OK), the value written to
\* the result, and the remote calls issued
Outcome(op, err, ret, calls) ==
    last' = [op |-> op, err |-> err, ret |-> ret, calls |-> calls]

\* a Revert thrown before anything was written
Revert(op, msg, calls) ==
    /\ Outcome(op, msg, 0, calls)
    /\ UNCHANGED <<storage, history>>

\* this step is a call that threw and left everything as it was
Refused == last'.err # OK /\ UNCHANGED <<storage, history>>

\* if this step is the call, the verdict holds of it (call => verdict, with
\* the verdict looked at first)
Gives(call, verdict) == verdict \/ ~call

----------------------------------------------------------------------------
(* Checks: each yields the Revert message it throws, or OK *)

\* mutant: the active flag is not looked at
requireActiveListing_NoActiveTest(listingId) ==
    IF listingId >= nextListingId \/ listingId = 0
    THEN "Listing does not exist"
    ELSE OK

requireActiveListing(listingId) ==
    IF listingId >= nextListingId \/ listingId = 0
    THEN "Listing does not exist"
    ELSE IF listingActiveMap[listingId] = INACTIVE
    THEN "Listing is not active"
    ELSE OK

\* mutant: the active flag is not looked at
requireActiveBid_NoActiveTest(bidId) ==
    IF bidId >= nextBidId \/ bidId = 0
    THEN "Bid does not exist"
    ELSE OK

requireActiveBid(bidId) ==
    IF bidId >= nextBidId \/ bidId = 0
    THEN "Bid does not exist"
    ELSE IF bidActiveMap[bidId] = INACTIVE
    THEN "Bid is not active"
    ELSE OK

\* mutant: the owner the call returned is not compared with the caller
verifyOwnership_SuccessOnly(result, expectedOwner) ==
    IF ~result.success
    THEN "ownerOf call failed"
    ELSE OK

verifyOwnership(result, expectedOwner) ==
    IF ~result.success
    THEN "ownerOf call failed"
    ELSE IF result.data # expectedOwner
    THEN "Caller is not the token owner"
    ELSE OK

\* mutant: the decoded answer of a successful call is not looked at
verifyApproval_SuccessOnly(result) ==
    IF ~result.success
    THEN "isApprovedForAll call failed"
    ELSE OK

verifyApproval(result) ==
    IF ~result.success
    THEN "isApprovedForAll call failed"
    ELSE IF ~result.data
    THEN "Marketplace not approved for transfers"
    ELSE OK

\* mutant: the CallResult of the transfer is not looked at
executeNFTTransfer_IgnoresResult(result) == OK

executeNFTTransfer(result) ==
    IF ~result.success THEN "NFT transfer failed" ELSE OK

\* this.onlyDeployer(Blockchain.tx.sender), of the OP_NET base contract
onlyDeployer(caller) ==
    IF caller # ContractDeployer
    THEN "Only deployer can call this method"
    ELSE OK

----------------------------------------------------------------------------
(* Pending calls                                                            *)
(*                                                                          *)
(* Blockchain.call hands control to the collection contract, which may call *)
(* the marketplace again before it answers: the contract has no reentrancy  *)
(* guard (it extends OP_NET).  listNFT, buyNFT and acceptBid therefore run  *)
(* from one remote call to the next, and a call that waits for the answer   *)
(* of a remote call is a frame of the stack.                                *)

\* a pending call: its local variables, and the remote call it waits for
Frame(op, pc, sender, id, collectionAddr, tokenId, other, amount) ==
    [op |-> op, pc |-> pc, sender |-> sender, id |-> id,
     collectionAddr |-> collectionAddr, tokenId |-> tokenId, other |-> other,
     amount |-> amount]

Top == stack[Len(stack)]
Pop == SubSeq(stack, 1, Len(stack) - 1)

\* the pending call goes on waiting for its next remote call
Proceed(pc) == stack' = Append(Pop, [Top EXCEPT !.pc = pc])

----------------------------------------------------------------------------
(* Operations *)

\* onDeployment, were the bid counter left at zero (mutant)
onDeployment_BidCounterUnset(feeRecipient, feeBps) ==
    /\ ~deployed
    /\ IF isZero(feeRecipient)
       THEN Revert("onDeployment", "Invalid fee recipient", <<>>)
       ELSE IF feeBps > MAX_PLATFORM_FEE_BPS
       THEN Revert("onDeployment", "Fee exceeds maximum", <<>>)
       ELSE /\ deployed' = TRUE
            /\ platformFeeRecipient' = feeRecipient
            /\ platformFeeBps' = feeBps
            /\ nextListingId' = FirstId
            /\ Outcome("onDeployment", OK, 0, <<>>)
            /\ UNCHANGED <<registryVars, listingCollectionMap,
                           listingTokenIdMap,
                           listingSellerMap, listingPriceMap, listingActiveMap,
                           bidVars, totalVolume,
                           totalListings, events, history>>

onDeployment(feeRecipient, feeBps) ==
    /\ ~deployed
    /\ IF isZero(feeRecipient)
       THEN Revert("onDeployment", "Invalid fee recipient", <<>>)
       ELSE IF feeBps > MAX_PLATFORM_FEE_BPS
       THEN Revert("onDeployment", "Fee exceeds maximum", <<>>)
       ELSE /\ deployed' = TRUE
            /\ platformFeeRecipient' = feeRecipient
            /\ platformFeeBps' = feeBps
            /\ nextListingId' = FirstId
            /\ nextBidId' = FirstId
            /\ Outcome("onDeployment", OK, 0, <<>>)
            /\ UNCHANGED <<registryVars, listingCollectionMap,
                           listingTokenIdMap,
                           listingSellerMap, listingPriceMap, listingActiveMap,
                           bidCollectionMap, bidTokenIdMap, bidBidderMap,
                           bidAmountMap, bidActiveMap, totalVolume,
                           totalListings, events, history>>

\* listNFT up to the ownerOf call, were the price looked at only after the
\* remote calls (mutant)
listNFT_validate_PriceUnchecked(sender, collectionAddr, tokenId, price) ==
    /\ deployed
    /\ IF isZero(collectionAddr)
       THEN Revert("listNFT", "Invalid collection address", <<>>)
              /\ UNCHANGED stack
       ELSE /\ Len(stack) < MaxDepth
            /\ stack' = Append(stack,
                 Frame("listNFT", "ownerOf", sender, 0, collectionAddr,
                       tokenId, ZeroAddress, price))
            /\ Outcome("listNFT", Pending, 0,
                       <<ownerOfCall(collectionAddr, tokenId)>>)
            /\ UNCHANGED <<storage, history>>

\* listNFT up to the ownerOf call of verifyOwnership
listNFT_validate(sender, collectionAddr, tokenId, price) ==
    /\ deployed
    /\ IF isZero(collectionAddr)
       THEN Revert("listNFT", "Invalid collection address", <<>>)
              /\ UNCHANGED stack
       ELSE IF price = 0
       THEN Revert("listNFT", "Price must be greater than zero", <<>>)
              /\ UNCHANGED stack
       ELSE /\ Len(stack) < MaxDepth
            /\ stack' = Append(stack,
                 Frame("listNFT", "ownerOf", sender, 0, collectionAddr,
                       tokenId, ZeroAddress, price))
            /\ Outcome("listNFT", Pending, 0,
                       <<ownerOfCall(collectionAddr, tokenId)>>)
            /\ UNCHANGED <<storage, history>>

\* listNFT from the answer of ownerOf to the isApprovedForAll call
listNFT_verifyOwnership(ownerOfResult) ==
    /\ stack # <<>>
    /\ Top.op = "listNFT" /\ Top.pc = "ownerOf"
    /\ IF verifyOwnership(ownerOfResult, Top.sender) # OK
       THEN /\ Revert("listNFT", verifyOwnership(ownerOfResult, Top.sender),
                      <<>>)
            /\ stack' = Pop
       ELSE /\ Proceed("isApprovedForAll")
            /\ Outcome("listNFT", Pending, 0,
                       <<isApprovedForAllCall(Top.collectionAddr, Top.sender)>>)
            /\ UNCHANGED <<storage, history>>

\* the id, were every listing given the first one (mutant)
listNFT_listingId_First == FirstId

\* the id the listing gets: the counter as it is read after the remote calls
listNFT_listingId == nextListingId

\* mutant: a token that has an active listing is not listed again
listNFT_record_OnePerToken(approvalResult) ==
    LET listingId == listNFT_listingId IN
    /\ stack # <<>>
    /\ Top.op = "listNFT" /\ Top.pc = "isApprovedForAll"
    /\ stack' = Pop
    /\ IF verifyApproval(approvalResult) # OK
       THEN Revert("listNFT", verifyApproval(approvalResult), <<>>)
       ELSE IF \E id \in U256 :
                 /\ listingCollectionMap[id] = addressToU256(Top.collectionAddr)
                 /\ listingTokenIdMap[id] = Top.tokenId
                 /\ listingActiveMap[id] = ACTIVE
       THEN Revert("listNFT", "Token is already listed", <<>>)
       ELSE IF AddOverflows(listingId, 1)
       THEN Revert("listNFT", OverflowMsg, <<>>)
       ELSE /\ nextListingId' = SafeMathAdd(listingId, 1)
            /\ listingCollectionMap' =
                 [listingCollectionMap EXCEPT
                    ![listingId] = addressToU256(Top.collectionAddr)]
            /\ listingTokenIdMap' =
                 [listingTokenIdMap EXCEPT ![listingId] = Top.tokenId]
            /\ listingSellerMap' =
                 [listingSellerMap EXCEPT
                    ![listingId] = addressToU256(Top.sender)]
            /\ listingPriceMap' =
                 [listingPriceMap EXCEPT ![listingId] = Top.amount]
            /\ listingActiveMap' =
                 [listingActiveMap EXCEPT ![listingId] = ACTIVE]
            /\ UNCHANGED <<deployed, registryVars, bidVars, platformFeeBps,
                           platformFeeRecipient, totalVolume, returnedBidIds,
                           settledVolume, unsettledVolume>>
            /\ IF AddOverflows(totalListings, 1)
               THEN /\ Outcome("listNFT", OverflowMsg, 0, <<>>)
                    /\ UNCHANGED <<totalListings, events, returnedListingIds>>
               ELSE /\ totalListings' = SafeMathAdd(totalListings, 1)
                    /\ events' = Append(events,
                         ListingCreatedEvent(listingId, Top.collectionAddr,
                                             Top.tokenId, Top.sender,
                                             Top.amount))
                    /\ returnedListingIds' =
                         Append(returnedListingIds, listingId)
                    /\ Outcome("listNFT", OK, listingId, <<>>)

\* listNFT from the answer of isApprovedForAll to its end
listNFT_record(approvalResult) ==
    LET listingId == listNFT_listingId IN
    /\ stack # <<>>
    /\ Top.op = "listNFT" /\ Top.pc = "isApprovedForAll"
    /\ stack' = Pop
    /\ IF verifyApproval(approvalResult) # OK
       THEN Revert("listNFT", verifyApproval(approvalResult), <<>>)
       ELSE IF AddOverflows(listingId, 1)
       THEN Revert("listNFT", OverflowMsg, <<>>)
       ELSE /\ nextListingId' = SafeMathAdd(listingId, 1)
            /\ listingCollectionMap' =
                 [listingCollectionMap EXCEPT
                    ![listingId] = addressToU256(Top.collectionAddr)]
            /\ listingTokenIdMap' =
                 [listingTokenIdMap EXCEPT ![listingId] = Top.tokenId]
            /\ listingSellerMap' =
                 [listingSellerMap EXCEPT
                    ![listingId] = addressToU256(Top.sender)]
            /\ listingPriceMap' =
                 [listingPriceMap EXCEPT ![listingId] = Top.amount]
            /\ listingActiveMap' =
                 [listingActiveMap EXCEPT ![listingId] = ACTIVE]
            /\ UNCHANGED <<deployed, registryVars, bidVars, platformFeeBps,
                           platformFeeRecipient, totalVolume, returnedBidIds,
                           settledVolume, unsettledVolume>>
            /\ IF AddOverflows(totalListings, 1)
               THEN /\ Outcome("listNFT", OverflowMsg, 0, <<>>)
                    /\ UNCHANGED <<totalListings, events, returnedListingIds>>
               ELSE /\ totalListings' = SafeMathAdd(totalListings, 1)
                    /\ events' = Append(events,
                         ListingCreatedEvent(listingId, Top.collectionAddr,
                                             Top.tokenId, Top.sender,
                                             Top.amount))
                    /\ returnedListingIds' =
                         Append(returnedListingIds, listingId)
                    /\ Outcome("listNFT", OK, listingId, <<>>)

\* mutant: the caller is compared with the seller before the id is classified
cancelListingCheck_CallerFirst(sender, listingId) ==
    LET seller == u256ToAddress(listingSellerMap[listingId]) IN
    IF sender # seller
    THEN "Only seller can cancel"
    ELSE requireActiveListing(listingId)

\* the checks of cancelListing, in the order the code makes them
cancelListingCheck(sender, listingId) ==
    LET seller == u256ToAddress(listingSellerMap[listingId]) IN
    IF requireActiveListing(listingId) # OK
    THEN requireActiveListing(listingId)
    ELSE IF sender # seller
    THEN "Only seller can cancel"
    ELSE OK

\* mutant: totalListings is kept as the number of open listings
cancelListing_CountsOpenListings(sender, listingId) ==
    /\ deployed
    /\ IF cancelListingCheck(sender, listingId) # OK
       THEN Revert("cancelListing", cancelListingCheck(sender, listingId), <<>>)
       ELSE /\ listingActiveMap' = [listingActiveMap EXCEPT ![listingId] = INACTIVE]
            /\ totalListings' = totalListings - 1
            /\ events' = Append(events, ListingCancelledEvent(listingId))
            /\ Outcome("cancelListing", OK, 1, <<>>)
            /\ UNCHANGED <<deployed, registryVars, nextListingId, listingCollectionMap,
                           listingTokenIdMap, listingSellerMap, listingPriceMap,
                           bidVars, platformFeeBps, platformFeeRecipient,
                           totalVolume, history>>

\* mutant: the cancelled listing's seller and price are cleared with its flag
cancelListing_ClearsTerms(sender, listingId) ==
    /\ deployed
    /\ IF cancelListingCheck(sender, listingId) # OK
       THEN Revert("cancelListing", cancelListingCheck(sender, listingId), <<>>)
       ELSE /\ listingActiveMap' = [listingActiveMap EXCEPT ![listingId] = INACTIVE]
            /\ listingSellerMap' = [listingSellerMap EXCEPT ![listingId] = 0]
            /\ listingPriceMap' = [listingPriceMap EXCEPT ![listingId] = 0]
            /\ events' = Append(events, ListingCancelledEvent(listingId))
            /\ Outcome("cancelListing", OK, 1, <<>>)
            /\ UNCHANGED <<deployed, registryVars, nextListingId, listingCollectionMap,
                           listingTokenIdMap,
                           bidVars, platformVars, history>>

cancelListing(sender, listingId) ==
    /\ deployed
    /\ IF cancelListingCheck(sender, listingId) # OK
       THEN Revert("cancelListing", cancelListingCheck(sender, listingId), <<>>)
       ELSE /\ listingActiveMap' = [listingActiveMap EXCEPT ![listingId] = INACTIVE]
            /\ events' = Append(events, ListingCancelledEvent(listingId))
            /\ Outcome("cancelListing", OK, 1, <<>>)
            /\ UNCHANGED <<deployed, registryVars, nextListingId, listingCollectionMap,
                           listingTokenIdMap, listingSellerMap, listingPriceMap,
                           bidVars, platformVars, history>>

\* mutant: the buyer is not compared with the seller
buyNFTCheck_NoSellerTest(buyer, listingId) ==
    requireActiveListing(listingId)

\* the checks of buyNFT, in the order the code makes them
buyNFTCheck(buyer, listingId) ==
    LET seller == u256ToAddress(listingSellerMap[listingId]) IN
    IF requireActiveListing(listingId) # OK
    THEN requireActiveListing(listingId)
    ELSE IF buyer = seller
    THEN "Buyer cannot be seller"
    ELSE OK

\* buyNFT up to the safeTransferFrom call, were the listing left active and
\* the volume untouched until the transfer is done (mutant)
buyNFT_settle_EffectsAfterCall(buyer, listingId) ==
    /\ deployed
    /\ IF buyNFTCheck(buyer, listingId) # OK
       THEN Revert("buyNFT", buyNFTCheck(buyer, listingId), <<>>)
              /\ UNCHANGED stack
       ELSE /\ Len(stack) < MaxDepth
            /\ stack' = Append(stack,
                 Frame("buyNFT", "safeTransferFrom", buyer, listingId,
                       u256ToAddress(listingCollectionMap[listingId]),
                       listingTokenIdMap[listingId],
                       u256ToAddress(listingSellerMap[listingId]),
                       listingPriceMap[listingId]))
            /\ Outcome("buyNFT", Pending, 0,
                 <<safeTransferFromCall(
                     u256ToAddress(listingCollectionMap[listingId]),
                     u256ToAddress(listingSellerMap[listingId]), buyer,
                     listingTokenIdMap[listingId])>>)
            /\ UNCHANGED <<storage, history>>

\* buyNFT up to the safeTransferFrom call of executeNFTTransfer
buyNFT_settle(buyer, listingId) ==
    LET collectionAddr == u256ToAddress(listingCollectionMap[listingId])
        tokenId == listingTokenIdMap[listingId]
        seller == u256ToAddress(listingSellerMap[listingId])
        price == listingPriceMap[listingId]
    IN
    /\ deployed
    /\ IF buyNFTCheck(buyer, listingId) # OK
       THEN Revert("buyNFT", buyNFTCheck(buyer, listingId), <<>>)
              /\ UNCHANGED stack
       ELSE /\ Len(stack) < MaxDepth
            /\ listingActiveMap' =
                 [listingActiveMap EXCEPT ![listingId] = INACTIVE]
            /\ UNCHANGED <<deployed, registryVars, nextListingId,
                           listingCollectionMap, listingTokenIdMap,
                           listingSellerMap, listingPriceMap, bidVars,
                           platformFeeBps, platformFeeRecipient,
                           totalListings, events, history>>
            /\ IF AddOverflows(totalVolume, price)
               THEN /\ Outcome("buyNFT", OverflowMsg, 0, <<>>)
                    /\ UNCHANGED <<totalVolume, stack>>
               ELSE /\ totalVolume' = SafeMathAdd(totalVolume, price)
                    /\ stack' = Append(stack,
                         Frame("buyNFT", "safeTransferFrom", buyer, listingId,
                               collectionAddr, tokenId, seller, price))
                    /\ Outcome("buyNFT", Pending, 0,
                               <<safeTransferFromCall(collectionAddr, seller,
                                                      buyer, tokenId)>>)

\* mutant: ListingSold is emitted whatever the transfer call answered
buyNFT_finish_EmitsOnFailure(transferResult) ==
    /\ stack # <<>>
    /\ Top.op = "buyNFT" /\ Top.pc = "safeTransferFrom"
    /\ stack' = Pop
    /\ UNCHANGED <<deployed, listingVars, bidVars, registryVars, platformVars,
                   returnedListingIds, returnedBidIds>>
    /\ events' = Append(events,
         ListingSoldEvent(Top.id, Top.sender, Top.amount))
    /\ IF executeNFTTransfer(transferResult) # OK
       THEN /\ Outcome("buyNFT", executeNFTTransfer(transferResult), 0, <<>>)
            /\ unsettledVolume' = unsettledVolume + Top.amount
            /\ UNCHANGED settledVolume
       ELSE /\ settledVolume' = settledVolume + Top.amount
            /\ Outcome("buyNFT", OK, 1, <<>>)
            /\ UNCHANGED unsettledVolume

\* buyNFT from the answer of safeTransferFrom to its end
buyNFT_finish(transferResult) ==
    /\ stack # <<>>
    /\ Top.op = "buyNFT" /\ Top.pc = "safeTransferFrom"
    /\ stack' = Pop
    /\ UNCHANGED <<deployed, listingVars, bidVars, registryVars, platformVars,
                   returnedListingIds, returnedBidIds>>
    /\ IF executeNFTTransfer(transferResult) # OK
       THEN /\ Outcome("buyNFT", executeNFTTransfer(transferResult), 0, <<>>)
            /\ unsettledVolume' = unsettledVolume + Top.amount
            /\ UNCHANGED <<events, settledVolume>>
       ELSE /\ events' = Append(events,
                 ListingSoldEvent(Top.id, Top.sender, Top.amount))
            /\ settledVolume' = settledVolume + Top.amount
            /\ Outcome("buyNFT", OK, 1, <<>>)
            /\ UNCHANGED unsettledVolume

\* mutant: the active flag of the new bid is not stored
placeBid_ActiveNotSet(sender, collectionAddr, tokenId, bidAmountSatoshis) ==
    LET bidId == nextBidId IN
    /\ deployed
    /\ IF isZero(collectionAddr)
       THEN Revert("placeBid", "Invalid collection address", <<>>)
       ELSE IF bidAmountSatoshis = 0
       THEN Revert("placeBid", "Bid amount must be greater than zero", <<>>)
       ELSE IF AddOverflows(bidId, 1)
       THEN Revert("placeBid", OverflowMsg, <<>>)
       ELSE /\ nextBidId' = SafeMathAdd(bidId, 1)
            /\ bidCollectionMap' =
                 [bidCollectionMap EXCEPT ![bidId] = addressToU256(collectionAddr)]
            /\ bidTokenIdMap' = [bidTokenIdMap EXCEPT ![bidId] = tokenId]
            /\ bidBidderMap' = [bidBidderMap EXCEPT ![bidId] = addressToU256(sender)]
            /\ bidAmountMap' = [bidAmountMap EXCEPT ![bidId] = bidAmountSatoshis]
            /\ UNCHANGED bidActiveMap
            /\ events' = Append(events,
                 BidPlacedEvent(bidId, collectionAddr, tokenId, sender,
                                bidAmountSatoshis))
            /\ returnedBidIds' = Append(returnedBidIds, bidId)
            /\ Outcome("placeBid", OK, bidId, <<>>)
            /\ UNCHANGED <<deployed, registryVars, listingVars, platformVars,
                           returnedListingIds, settledVolume, unsettledVolume>>

\* mutant: a bid takes its id out of the listings' id space as well
placeBid_SharedCounter(sender, collectionAddr, tokenId, bidAmountSatoshis) ==
    LET bidId == nextBidId IN
    /\ deployed
    /\ IF isZero(collectionAddr)
       THEN Revert("placeBid", "Invalid collection address", <<>>)
       ELSE IF bidAmountSatoshis = 0
       THEN Revert("placeBid", "Bid amount must be greater than zero", <<>>)
       ELSE IF AddOverflows(bidId, 1)
       THEN Revert("placeBid", OverflowMsg, <<>>)
       ELSE /\ nextBidId' = SafeMathAdd(bidId, 1)
            /\ nextListingId' = nextBidId'
            /\ bidCollectionMap' =
                 [bidCollectionMap EXCEPT ![bidId] = addressToU256(collectionAddr)]
            /\ bidTokenIdMap' = [bidTokenIdMap EXCEPT ![bidId] = tokenId]
            /\ bidBidderMap' = [bidBidderMap EXCEPT ![bidId] = addressToU256(sender)]
            /\ bidAmountMap' = [bidAmountMap EXCEPT ![bidId] = bidAmountSatoshis]
            /\ bidActiveMap' = [bidActiveMap EXCEPT ![bidId] = ACTIVE]
            /\ events' = Append(events,
                 BidPlacedEvent(bidId, collectionAddr, tokenId, sender,
                                bidAmountSatoshis))
            /\ returnedBidIds' = Append(returnedBidIds, bidId)
            /\ Outcome("placeBid", OK, bidId, <<>>)
            /\ UNCHANGED <<deployed, registryVars, listingCollectionMap,
                           listingTokenIdMap, listingSellerMap, listingPriceMap,
                           listingActiveMap, platformVars,
                           returnedListingIds, settledVolume, unsettledVolume>>

placeBid(sender, collectionAddr, tokenId, bidAmountSatoshis) ==
    LET bidId == nextBidId IN
    /\ deployed
    /\ IF isZero(collectionAddr)
       THEN Revert("placeBid", "Invalid collection address", <<>>)
       ELSE IF bidAmountSatoshis = 0
       THEN Revert("placeBid", "Bid amount must be greater than zero", <<>>)
       ELSE IF AddOverflows(bidId, 1)
       THEN Revert("placeBid", OverflowMsg, <<>>)
       ELSE /\ nextBidId' = SafeMathAdd(bidId, 1)
            /\ bidCollectionMap' =
                 [bidCollectionMap EXCEPT ![bidId] = addressToU256(collectionAddr)]
            /\ bidTokenIdMap' = [bidTokenIdMap EXCEPT ![bidId] = tokenId]
            /\ bidBidderMap' = [bidBidderMap EXCEPT ![bidId] = addressToU256(sender)]
            /\ bidAmountMap' = [bidAmountMap EXCEPT ![bidId] = bidAmountSatoshis]
            /\ bidActiveMap' = [bidActiveMap EXCEPT ![bidId] = ACTIVE]
            /\ events' = Append(events,
                 BidPlacedEvent(bidId, collectionAddr, tokenId, sender,
                                bidAmountSatoshis))
            /\ returnedBidIds' = Append(returnedBidIds, bidId)
            /\ Outcome("placeBid", OK, bidId, <<>>)
            /\ UNCHANGED <<deployed, registryVars, listingVars, platformVars,
                           returnedListingIds, settledVolume, unsettledVolume>>

\* the checks of cancelBid, in the order the code makes them
cancelBidCheck(sender, bidId) ==
    LET bidder == u256ToAddress(bidBidderMap[bidId]) IN
    IF requireActiveBid(bidId) # OK
    THEN requireActiveBid(bidId)
    ELSE IF sender # bidder
    THEN "Only bidder can cancel"
    ELSE OK

\* mutant: the cancelled bid is left active
cancelBid_KeepsActive(sender, bidId) ==
    /\ deployed
    /\ IF cancelBidCheck(sender, bidId) # OK
       THEN Revert("cancelBid", cancelBidCheck(sender, bidId), <<>>)
       ELSE /\ events' = Append(events, BidCancelledEvent(bidId))
            /\ Outcome("cancelBid", OK, 1, <<>>)
            /\ UNCHANGED <<deployed, registryVars, listingVars, bidVars,
                           platformVars, history>>

\* mutant: the cancelled bid's amount is cleared with its flag
cancelBid_ClearsAmount(sender, bidId) ==
    /\ deployed
    /\ IF cancelBidCheck(sender, bidId) # OK
       THEN Revert("cancelBid", cancelBidCheck(sender, bidId), <<>>)
       ELSE /\ bidActiveMap' = [bidActiveMap EXCEPT ![bidId] = INACTIVE]
            /\ bidAmountMap' = [bidAmountMap EXCEPT ![bidId] = 0]
            /\ events' = Append(events, BidCancelledEvent(bidId))
            /\ Outcome("cancelBid", OK, 1, <<>>)
            /\ UNCHANGED <<deployed, registryVars, listingVars, nextBidId, bidCollectionMap,
                           bidTokenIdMap, bidBidderMap,
                           platformVars, history>>

cancelBid(sender, bidId) ==
    /\ deployed
    /\ IF cancelBidCheck(sender, bidId) # OK
       THEN Revert("cancelBid", cancelBidCheck(sender, bidId), <<>>)
       ELSE /\ bidActiveMap' = [bidActiveMap EXCEPT ![bidId] = INACTIVE]
            /\ events' = Append(events, BidCancelledEvent(bidId))
            /\ Outcome("cancelBid", OK, 1, <<>>)
            /\ UNCHANGED <<deployed, registryVars, listingVars, nextBidId, bidCollectionMap,
                           bidTokenIdMap, bidBidderMap, bidAmountMap,
                           platformVars, history>>

\* acceptBid up to the ownerOf call of verifyOwnership: the bid is read, and
\* left active
acceptBid_read(sender, bidId) ==
    LET collectionAddr == u256ToAddress(bidCollectionMap[bidId])
        tokenId == bidTokenIdMap[bidId]
        bidder == u256ToAddress(bidBidderMap[bidId])
        amount == bidAmountMap[bidId]
    IN
    /\ deployed
    /\ IF requireActiveBid(bidId) # OK
       THEN Revert("acceptBid", requireActiveBid(bidId), <<>>)
              /\ UNCHANGED stack
       ELSE /\ Len(stack) < MaxDepth
            /\ stack' = Append(stack,
                 Frame("acceptBid", "ownerOf", sender, bidId, collectionAddr,
                       tokenId, bidder, amount))
            /\ Outcome("acceptBid", Pending, 0,
                       <<ownerOfCall(collectionAddr, tokenId)>>)
            /\ UNCHANGED <<storage, history>>

\* mutant: the accepted amount is not added to the volume
acceptBid_settle_VolumeNotAdded(ownerOfResult) ==
    /\ stack # <<>>
    /\ Top.op = "acceptBid" /\ Top.pc = "ownerOf"
    /\ IF verifyOwnership(ownerOfResult, Top.sender) # OK
       THEN /\ Revert("acceptBid",
                      verifyOwnership(ownerOfResult, Top.sender), <<>>)
            /\ stack' = Pop
       ELSE /\ bidActiveMap' = [bidActiveMap EXCEPT ![Top.id] = INACTIVE]
            /\ UNCHANGED <<deployed, registryVars, listingVars, nextBidId,
                           bidCollectionMap, bidTokenIdMap, bidBidderMap,
                           bidAmountMap, platformFeeBps, platformFeeRecipient,
                           totalListings, events, history, totalVolume>>
            /\ Proceed("safeTransferFrom")
            /\ Outcome("acceptBid", Pending, 0,
                       <<safeTransferFromCall(Top.collectionAddr,
                                              Top.sender, Top.other,
                                              Top.tokenId)>>)

\* acceptBid from the answer of ownerOf to the safeTransferFrom call: the
\* bid is not read again
acceptBid_settle(ownerOfResult) ==
    /\ stack # <<>>
    /\ Top.op = "acceptBid" /\ Top.pc = "ownerOf"
    /\ IF verifyOwnership(ownerOfResult, Top.sender) # OK
       THEN /\ Revert("acceptBid",
                      verifyOwnership(ownerOfResult, Top.sender), <<>>)
            /\ stack' = Pop
       ELSE /\ bidActiveMap' = [bidActiveMap EXCEPT ![Top.id] = INACTIVE]
            /\ UNCHANGED <<deployed, registryVars, listingVars, nextBidId,
                           bidCollectionMap, bidTokenIdMap, bidBidderMap,
                           bidAmountMap, platformFeeBps, platformFeeRecipient,
                           totalListings, events, history>>
            /\ IF AddOverflows(totalVolume, Top.amount)
               THEN /\ Outcome("acceptBid", OverflowMsg, 0, <<>>)
                    /\ stack' = Pop
                    /\ UNCHANGED totalVolume
               ELSE /\ totalVolume' = SafeMathAdd(totalVolume, Top.amount)
                    /\ Proceed("safeTransferFrom")
                    /\ Outcome("acceptBid", Pending, 0,
                               <<safeTransferFromCall(Top.collectionAddr,
                                                      Top.sender, Top.other,
                                                      Top.tokenId)>>)

\* acceptBid from the answer of safeTransferFrom to its end
acceptBid_finish(transferResult) ==
    /\ stack # <<>>
    /\ Top.op = "acceptBid" /\ Top.pc = "safeTransferFrom"
    /\ stack' = Pop
    /\ UNCHANGED <<deployed, listingVars, bidVars, registryVars, platformVars,
                   returnedListingIds, returnedBidIds>>
    /\ IF executeNFTTransfer(transferResult) # OK
       THEN /\ Outcome("acceptBid", executeNFTTransfer(transferResult), 0,
                       <<>>)
            /\ unsettledVolume' = unsettledVolume + Top.amount
            /\ UNCHANGED <<events, settledVolume>>
       ELSE /\ events' = Append(events, BidAcceptedEvent(Top.id, Top.sender))
            /\ settledVolume' = settledVolume + Top.amount
            /\ Outcome("acceptBid", OK, 1, <<>>)
            /\ UNCHANGED unsettledVolume

\* the checks of registerCollection, in the order the code makes them
registerCollectionCheck(sender, collectionAddr, royaltyBps, royaltyRecipient) ==
    IF onlyDeployer(sender) # OK
    THEN onlyDeployer(sender)
    ELSE IF isZero(collectionAddr)
    THEN "Invalid collection address"
    ELSE IF royaltyBps > MAX_ROYALTY_BPS
    THEN "Royalty exceeds maximum 10%"
    ELSE IF isZero(royaltyRecipient)
    THEN "Invalid royalty recipient"
    ELSE OK

\* mutant: the terms of a collection already registered are kept
registerCollection_InsertOnly(sender, collectionAddr, royaltyBps, royaltyRecipient) ==
    LET check == registerCollectionCheck(sender, collectionAddr, royaltyBps,
                                         royaltyRecipient)
        collectionKey == addressToU256(collectionAddr)
        fresh == collectionRegisteredMap[collectionAddr] = 0
    IN
    /\ deployed
    /\ IF check # OK
       THEN Revert("registerCollection", check, <<>>)
       ELSE /\ collectionRegisteredMap' =
                 [collectionRegisteredMap EXCEPT ![collectionAddr] = 1]
            /\ collectionRoyaltyBpsMap' =
                 IF fresh
                 THEN [collectionRoyaltyBpsMap EXCEPT
                         ![collectionAddr] = royaltyBps]
                 ELSE collectionRoyaltyBpsMap
            /\ collectionRoyaltyRecipientMap' =
                 IF fresh
                 THEN [collectionRoyaltyRecipientMap EXCEPT
                         ![collectionKey] = addressToU256(royaltyRecipient)]
                 ELSE collectionRoyaltyRecipientMap
            /\ events' = Append(events,
                 CollectionRegisteredEvent(collectionAddr, royaltyBps))
            /\ Outcome("registerCollection", OK, 1, <<>>)
            /\ UNCHANGED <<deployed, listingVars, bidVars, platformVars,
                           history>>

registerCollection(sender, collectionAddr, royaltyBps, royaltyRecipient) ==
    LET check == registerCollectionCheck(sender, collectionAddr, royaltyBps,
                                         royaltyRecipient)
        collectionKey == addressToU256(collectionAddr)
    IN
    /\ deployed
    /\ IF check # OK
       THEN Revert("registerCollection", check, <<>>)
       ELSE /\ collectionRegisteredMap' =
                 [collectionRegisteredMap EXCEPT ![collectionAddr] = 1]
            /\ collectionRoyaltyBpsMap' =
                 [collectionRoyaltyBpsMap EXCEPT ![collectionAddr] = royaltyBps]
            /\ collectionRoyaltyRecipientMap' =
                 [collectionRoyaltyRecipientMap EXCEPT
                    ![collectionKey] = addressToU256(royaltyRecipient)]
            /\ events' = Append(events,
                 CollectionRegisteredEvent(collectionAddr, royaltyBps))
            /\ Outcome("registerCollection", OK, 1, <<>>)
            /\ UNCHANGED <<deployed, listingVars, bidVars, platformVars,
                           history>>

\* mutant: the fee is compared with the royalty bound
setPlatformFeeCheck_RoyaltyBound(sender, newFeeBps) ==
    IF onlyDeployer(sender) # OK
    THEN onlyDeployer(sender)
    ELSE IF newFeeBps > MAX_ROYALTY_BPS
    THEN "Fee exceeds maximum 5%"
    ELSE OK

\* the checks of setPlatformFee, in the order the code makes them
setPlatformFeeCheck(sender, newFeeBps) ==
    IF onlyDeployer(sender) # OK
    THEN onlyDeployer(sender)
    ELSE IF newFeeBps > MAX_PLATFORM_FEE_BPS
    THEN "Fee exceeds maximum 5%"
    ELSE OK

\* mutant: the new fee is announced in an event
setPlatformFee_EmitsEvent(sender, newFeeBps) ==
    /\ deployed
    /\ IF setPlatformFeeCheck(sender, newFeeBps) # OK
       THEN Revert("setPlatformFee", setPlatformFeeCheck(sender, newFeeBps),
                   <<>>)
       ELSE /\ platformFeeBps' = newFeeBps
            /\ events' = Append(events, Event("PlatformFeeSet", <<newFeeBps>>))
            /\ Outcome("setPlatformFee", OK, 1, <<>>)
            /\ UNCHANGED <<deployed, listingVars, bidVars, registryVars,
                           platformFeeRecipient, totalVolume, totalListings,
                           history>>

setPlatformFee(sender, newFeeBps) ==
    /\ deployed
    /\ IF setPlatformFeeCheck(sender, newFeeBps) # OK
       THEN Revert("setPlatformFee", setPlatformFeeCheck(sender, newFeeBps),
                   <<>>)
       ELSE /\ platformFeeBps' = newFeeBps
            /\ Outcome("setPlatformFee", OK, 1, <<>>)
            /\ UNCHANGED <<deployed, listingVars, bidVars, registryVars,
                           platformFeeRecipient, totalVolume, totalListings,
                           events, history>>

\* mutant: the caller is not compared with the deployer
setPlatformFeeRecipientCheck_NoDeployerTest(sender, newRecipient) ==
    IF isZero(newRecipient)
    THEN "Invalid recipient address"
    ELSE OK

\* the checks of setPlatformFeeRecipient, in the order the code makes them
setPlatformFeeRecipientCheck(sender, newRecipient) ==
    IF onlyDeployer(sender) # OK
    THEN onlyDeployer(sender)
    ELSE IF isZero(newRecipient)
    THEN "Invalid recipient address"
    ELSE OK

setPlatformFeeRecipient(sender, newRecipient) ==
    /\ deployed
    /\ IF setPlatformFeeRecipientCheck(sender, newRecipient) # OK
       THEN Revert("setPlatformFeeRecipient",
                   setPlatformFeeRecipientCheck(sender, newRecipient), <<>>)
       ELSE /\ platformFeeRecipient' = newRecipient
            /\ Outcome("setPlatformFeeRecipient", OK, 1, <<>>)
            /\ UNCHANGED <<deployed, listingVars, bidVars, registryVars,
                           platformFeeBps, totalVolume, totalListings,
                           events, history>>

\* mutant: the registered flag is not looked at
updateRoyaltyCheck_NoRegisteredTest(sender, collectionAddr, newBps, newRecipient) ==
    IF onlyDeployer(sender) # OK
    THEN onlyDeployer(sender)
    ELSE IF newBps > MAX_ROYALTY_BPS
    THEN "Royalty exceeds maximum 10%"
    ELSE IF isZero(newRecipient)
    THEN "Invalid royalty recipient"
    ELSE OK

\* the checks of updateRoyalty, in the order the code makes them
updateRoyaltyCheck(sender, collectionAddr, newBps, newRecipient) ==
    IF onlyDeployer(sender) # OK
    THEN onlyDeployer(sender)
    ELSE IF collectionRegisteredMap[collectionAddr] = 0
    THEN "Collection not registered"
    ELSE IF newBps > MAX_ROYALTY_BPS
    THEN "Royalty exceeds maximum 10%"
    ELSE IF isZero(newRecipient)
    THEN "Invalid royalty recipient"
    ELSE OK

updateRoyalty(sender, collectionAddr, newBps, newRecipient) ==
    LET check == updateRoyaltyCheck(sender, collectionAddr, newBps,
                                    newRecipient)
        collectionKey == addressToU256(collectionAddr)
    IN
    /\ deployed
    /\ IF check # OK
       THEN Revert("updateRoyalty", check, <<>>)
       ELSE /\ collectionRoyaltyBpsMap' =
                 [collectionRoyaltyBpsMap EXCEPT ![collectionAddr] = newBps]
            /\ collectionRoyaltyRecipientMap' =
                 [collectionRoyaltyRecipientMap EXCEPT
                    ![collectionKey] = addressToU256(newRecipient)]
            /\ Outcome("updateRoyalty", OK, 1, <<>>)
            /\ UNCHANGED <<deployed, listingVars, bidVars,
                           collectionRegisteredMap, platformVars, events,
                           history>>

\* mutant: an id outside the valid range is refused
getListing_RequiresExisting(listingId) ==
    /\ deployed
    /\ IF listingId >= nextListingId \/ listingId = 0
       THEN Revert("getListing", "Listing does not exist", <<>>)
       ELSE /\ Outcome("getListing", OK,
                       <<listingCollectionMap[listingId],
                         listingTokenIdMap[listingId],
                         listingSellerMap[listingId],
                         listingPriceMap[listingId],
                         listingActiveMap[listingId]>>,
                       <<>>)
            /\ UNCHANGED <<storage, history>>

\* the five words getListing writes to its result
getListing(listingId) ==
    /\ deployed
    /\ Outcome("getListing", OK,
               <<listingCollectionMap[listingId], listingTokenIdMap[listingId],
                 listingSellerMap[listingId], listingPriceMap[listingId],
                 listingActiveMap[listingId]>>,
               <<>>)
    /\ UNCHANGED <<storage, history>>

\* mutant: a bid that is not active is left out (read as if never placed)
getBid_OmitsInactive(bidId) ==
    /\ deployed
    /\ Outcome("getBid", OK,
               IF bidActiveMap[bidId] = ACTIVE
               THEN <<bidCollectionMap[bidId], bidTokenIdMap[bidId],
                      bidBidderMap[bidId], bidAmountMap[bidId],
                      bidActiveMap[bidId]>>
               ELSE <<0, 0, 0, 0, 0>>,
               <<>>)
    /\ UNCHANGED <<storage, history>>

\* the five words getBid writes to its result
getBid(bidId) ==
    /\ deployed
    /\ Outcome("getBid", OK,
               <<bidCollectionMap[bidId], bidTokenIdMap[bidId],
                 bidBidderMap[bidId], bidAmountMap[bidId],
                 bidActiveMap[bidId]>>,
               <<>>)
    /\ UNCHANGED <<storage, history>>

\* the three words getCollectionInfo writes to its result
getCollectionInfo(collectionAddr) ==
    /\ deployed
    /\ Outcome("getCollectionInfo", OK,
               <<collectionRegisteredMap[collectionAddr],
                 collectionRoyaltyBpsMap[collectionAddr],
                 collectionRoyaltyRecipientMap[addressToU256(collectionAddr)]>>,
               <<>>)
    /\ UNCHANGED <<storage, history>>

\* the four words getPlatformInfo writes to its result (the recipient as
\* the address it is stored as)
getPlatformInfo ==
    /\ deployed
    /\ Outcome("getPlatformInfo", OK,
               <<platformFeeBps, platformFeeRecipient, totalVolume,
                 totalListings>>,
               <<>>)
    /\ UNCHANGED <<storage, history>>

----------------------------------------------------------------------------
(* The contract under any sequence of calls *)

\* A call that threw before it wrote leaves the contract, and the calls that
\* were pending before it, as they were, so what can follow it can follow
\* the state before it: a run is followed on from deployment, from the
\* steps that wrote or issued a remote call, and from the calls that threw
\* after a write.  The read operations write nothing either.
Views == {"getListing", "getBid", "getCollectionInfo", "getPlatformInfo"}
Stepped ==
    /\ last.err \in {OK, Pending, OverflowMsg, "NFT transfer failed"}
    /\ last.op \notin Views

\* A pending call emits at most one event when it is answered.  Calls are
\* made while the event log, the settings changes made without an event
\* (quietWrites) and the pending calls together are short of MaxEvents, so
\* that every pending call can be answered.
Callable == Len(events) + quietWrites + Len(stack) < MaxEvents

\* a step of the marketplace leaves the dead man's switch alone
Step(call) == Stepped /\ call /\ UNCHANGED <<quietWrites, switchVars>>

\* a call of the marketplace, from outside or (while a call is pending) by
\* the contract that was called
Call(call) == Callable /\ Step(call)

\* a call of an operation that makes no remote call
Direct(call) == Call(call /\ UNCHANGED stack)

\* a call of a settings operation, which emits no event
Quiet(call) ==
    /\ Callable /\ Stepped
    /\ call
    /\ quietWrites' = IF last'.err = OK THEN quietWrites + 1 ELSE quietWrites
    /\ UNCHANGED <<switchVars, stack>>

Deploy ==
    \E feeRecipient \in FeeRecipients, feeBps \in FeeBpsInputs :
      Direct(onDeployment(feeRecipient, feeBps))

ListNFT ==
    \E sender \in Senders, collectionAddr \in Collections,
       tokenId \in TokenIds, price \in Prices :
      Call(listNFT_validate(sender, collectionAddr, tokenId, price))

OwnerOfAnswersListNFT ==
    \E ownerOfResult \in OwnerOfResults :
      Step(listNFT_verifyOwnership(ownerOfResult))

ApprovalAnswersListNFT ==
    \E approvalResult \in ApprovalResults :
      Step(listNFT_record(approvalResult))

CancelListing ==
    \E sender \in Senders, listingId \in U256 :
      Direct(cancelListing(sender, listingId))

BuyNFT ==
    \E buyer \in Senders, listingId \in U256 :
      Call(buyNFT_settle(buyer, listingId))

TransferAnswersBuyNFT ==
    \E transferResult \in TransferResults :
      Step(buyNFT_finish(transferResult))

PlaceBid ==
    \E sender \in Senders, collectionAddr \in Collections,
       tokenId \in TokenIds, bidAmountSatoshis \in BidAmounts :
      Direct(placeBid(sender, collectionAddr, tokenId, bidAmountSatoshis))

CancelBid ==
    \E sender \in Senders, bidId \in U256 : Direct(cancelBid(sender, bidId))

AcceptBid ==
    \E sender \in Senders, bidId \in U256 :
      Call(acceptBid_read(sender, bidId))

OwnerOfAnswersAcceptBid ==
    \E ownerOfResult \in OwnerOfResults :
      Step(acceptBid_settle(ownerOfResult))

TransferAnswersAcceptBid ==
    \E transferResult \in TransferResults :
      Step(acceptBid_finish(transferResult))

RegisterCollection ==
    \E sender \in Senders, collectionAddr \in RoyaltyCollections,
       royaltyBps \in RoyaltyBpsInputs,
       royaltyRecipient \in RoyaltyRecipients :
      Direct(registerCollection(sender, collectionAddr, royaltyBps,
                                royaltyRecipient))

SetPlatformFee ==
    \E sender \in Senders, newFeeBps \in NewFeeBpsInputs :
      Quiet(setPlatformFee(sender, newFeeBps))

SetPlatformFeeRecipient ==
    \E sender \in Senders, newRecipient \in NewFeeRecipients :
      Quiet(setPlatformFeeRecipient(sender, newRecipient))

UpdateRoyalty ==
    \E sender \in Senders, collectionAddr \in RoyaltyCollections,
       newBps \in RoyaltyBpsInputs, newRecipient \in RoyaltyRecipients :
      Quiet(updateRoyalty(sender, collectionAddr, newBps, newRecipient))

GetListing == \E listingId \in U256 : Direct(getListing(listingId))

GetBid == \E bidId \in U256 : Direct(getBid(bidId))

GetCollectionInfo ==
    \E collectionAddr \in RoyaltyCollections :
      Direct(getCollectionInfo(collectionAddr))

GetPlatformInfo == Direct(getPlatformInfo)

\* someone calls the marketplace (from outside, or the collection contract
\* while a call waits for its answer), or the collection contract answers
\* the innermost pending call
Next ==
    \/ Deploy
    \/ ListNFT
    \/ OwnerOfAnswersListNFT
    \/ ApprovalAnswersListNFT
    \/ CancelListing
    \/ BuyNFT
    \/ TransferAnswersBuyNFT
    \/ PlaceBid
    \/ CancelBid
    \/ AcceptBid
    \/ OwnerOfAnswersAcceptBid
    \/ TransferAnswersAcceptBid
    \/ RegisterCollection
    \/ SetPlatformFee
    \/ SetPlatformFeeRecipient
    \/ UpdateRoyalty
    \/ GetListing
    \/ GetBid
    \/ GetCollectionInfo
    \/ GetPlatformInfo

Spec == Init /\ [][Next]_vars

\* serialized execution: no call is made while another waits for a remote
\* call, so the only step taken while a call is pending is its answer
Serial == stack = <<>> \/ (stack' # stack /\ Len(stack') <= Len(stack))

SerialNext ==
    \/ Deploy /\ Serial
    \/ ListNFT /\ Serial
    \/ OwnerOfAnswersListNFT /\ Serial
    \/ ApprovalAnswersListNFT /\ Serial
    \/ CancelListing /\ Serial
    \/ BuyNFT /\ Serial
    \/ TransferAnswersBuyNFT /\ Serial
    \/ PlaceBid /\ Serial
    \/ CancelBid /\ Serial
    \/ AcceptBid /\ Serial
    \/ OwnerOfAnswersAcceptBid /\ Serial
    \/ TransferAnswersAcceptBid /\ Serial
    \/ RegisterCollection /\ Serial
    \/ SetPlatformFee /\ Serial
    \/ SetPlatformFeeRecipient /\ Serial
    \/ UpdateRoyalty /\ Serial
    \/ GetListing /\ Serial
    \/ GetBid /\ Serial
    \/ GetCollectionInfo /\ Serial
    \/ GetPlatformInfo /\ Serial

SerialSpec == Init /\ [][SerialNext]_vars

----------------------------------------------------------------------------
(* DeadMansSwitch (src/unnamed/part_000)                                    *)
(*                                                                          *)
(* The owner checks in; when no check-in came for heartbeatInterval blocks  *)
(* anyone may trigger the switch, which opens the stored decryption key;    *)
(* the owner may cancel a trigger within gracePeriod blocks.  The contract  *)
(* makes no remote call.  Of the event log only what the last call emitted  *)
(* is kept: the contract never reads the log.                               *)

STATUS_ACTIVE == 0
STATUS_TRIGGERED == 1
STATUS_CANCELLED == 2

\* the greatest word of the switch
SwitchU256Max == 2^SwitchWordBits - 1

\* SafeMath.add on the words of the switch: it throws when the sum is not
\* a word, and yields the sum otherwise
SwitchAddOverflows(a, b) == a + b > SwitchU256Max
SwitchSafeMathAdd(a, b) == a + b

\* a stored byte array takes at most this many slots ...
MAX_BYTE_SLOTS == 256
\* ... of this many bytes each; slot 0 starts with the length, on this many
\* bytes, followed by the first bytes of the array
SlotBytes == 32
LengthBytes == 4
FirstChunkSize == 28

\* the storage pointers of the two byte arrays (Blockchain.nextPointer
\* counts the declarations from 0) and the sub-pointer of the key
encryptedKeyPointer == 8
dataChunksPointer == 9
\* a sub-pointer has this many bytes, the rest of a 32-byte key after the
\* two bytes of the pointer; the empty one is all zero
SubPointerBytes == 30
EMPTY_POINTER == [i \in 1..SubPointerBytes |-> 0]

(* Chunk indexes *)

\* A chunk index and the chunk count are kept at their full width, as the
\* 32 bytes, high-order byte first, that u256.toUint8Array(true) gives: the
\* sub-pointer of a chunk is cut out of these bytes.
u256Zero == [i \in 1..SlotBytes |-> 0]
u256Max == [i \in 1..SlotBytes |-> 255]
\* the first index whose low-order 30 bytes are zero again: 2^240
FirstIndexPastSubPointers == [i \in 1..SlotBytes |-> IF i = 2 THEN 1 ELSE 0]

\* bytes, read as a number with the high-order byte first, plus carry added
\* at byte i; a carry out of byte 1 is lost
RECURSIVE addBytes(_, _, _)
addBytes(bytes, i, carry) ==
    IF i = 0 \/ carry = 0 THEN bytes
    ELSE LET sum == bytes[i] + carry IN
         addBytes([bytes EXCEPT ![i] = sum % 256], i - 1, sum \div 256)

\* a > b, the words compared as numbers
u256Gt(a, b) ==
    \E i \in 1..SlotBytes :
      /\ a[i] > b[i]
      /\ \A j \in 1..(i - 1) : a[j] = b[j]

\* SafeMath.add(chunkIndex, u256.One): it throws at the greatest word
indexPlusOneOverflows(chunkIndex) == chunkIndex = u256Max
indexPlusOne(chunkIndex) == addBytes(chunkIndex, SlotBytes, 1)

\* what the deployer and the callers send
SwitchOwners == {ZeroAddress, AddressOf(1)}
SwitchBeneficiaries == {ZeroAddress, AddressOf(2)}
Intervals == {0, 1, SwitchU256Max}
GracePeriods == {0, 1, SwitchU256Max}
NewBeneficiaries == {ZeroAddress, AddressOf(U256Max)}
\* a key of five slots: the first, three full ones and one more byte
LongKey == [i \in 1..(FirstChunkSize + 3 * SlotBytes + 1) |-> i]
EncryptedKeys == {<<>>, <<5>>, LongKey}
\* the first index, the first index past the sub-pointers (it shares the
\* key of index 0) and the greatest word
ChunkIndexes == {u256Zero, FirstIndexPastSubPointers, u256Max}
ChunkData == {<<>>, <<9>>}

CheckedInEvent(ownerAddr, blockHeight) ==
    Event("CheckedIn", <<ownerAddr, blockHeight>>)
DataStoredEvent(chunkIndex, dataSize) ==
    Event("DataStored", <<chunkIndex, dataSize>>)
TriggeredEvent(beneficiaryAddr, blockHeight) ==
    Event("Triggered", <<beneficiaryAddr, blockHeight>>)
CancelledEvent(ownerAddr, blockHeight) ==
    Event("Cancelled", <<ownerAddr, blockHeight>>)
BeneficiaryUpdatedEvent(oldBeneficiary, newBeneficiary) ==
    Event("BeneficiaryUpdated", <<oldBeneficiary, newBeneficiary>>)

\* a call of the switch that threw before it wrote anything
SwitchRevert(op, msg) ==
    /\ Outcome(op, msg, 0, <<>>)
    /\ emitted' = <<>>
    /\ UNCHANGED switchStorage

\* a read operation of the switch returning ret
SwitchView(op, ret) ==
    /\ Outcome(op, OK, ret, <<>>)
    /\ emitted' = <<>>
    /\ UNCHANGED switchStorage

(* Byte arrays in storage *)

\* a storage slot nothing was written to reads as zero bytes
ZeroSlot == [i \in 1..SlotBytes |-> 0]
getStorageAt(key) == IF key \in DOMAIN slots THEN slots[key] ELSE ZeroSlot

\* the storage key of slot 0 of an array: the pointer on 2 bytes, then the
\* sub-pointer on 30
encodePointer(pointer, subPointer) ==
    <<pointer \div 256, pointer % 256>> \o subPointer

\* the key of a later slot is the key of slot 0, read as one 32-byte
\* number, plus the slot's index: the slots of an array run into the keys
\* of the sub-pointers that follow its own
bigEndianAdd(baseKey, slotIndex) == addBytes(baseKey, SlotBytes, slotIndex)

\* bytes 2..31 (counted from 0) of the 32 bytes of a word: the two
\* high-order bytes are dropped, so two indexes that differ only there
\* share a key
u256ToSubPointer(value) ==
    [i \in 1..SubPointerBytes |-> value[i + SlotBytes - SubPointerBytes]]

\* byte i (1..4) of the big-endian length
LengthByte(length, i) == (length \div (256 ^ (LengthBytes - i))) % 256

storeMultiSlotBytesCheck(data) ==
    IF Len(data) > MAX_BYTE_SLOTS * SlotBytes - LengthBytes
    THEN "Data exceeds maximum storage capacity"
    ELSE OK

\* the storage with value written under key
setStorageAt(store, key, value) == (key :> value) @@ store

\* bytes followed by zero bytes to the length of a slot
padded(bytes) == bytes \o SubSeq(ZeroSlot, 1, SlotBytes - Len(bytes))

\* the storage after the bytes of rest were written to the slots from
\* slotIndex on, 32 to a slot, the last one zero padded
RECURSIVE writeSlots(_, _, _, _)
writeSlots(store, baseKey, slotIndex, rest) ==
    IF rest = <<>> THEN store
    ELSE LET toCopy == IF Len(rest) < SlotBytes THEN Len(rest) ELSE SlotBytes
             slotData == padded(SubSeq(rest, 1, toCopy))
         IN writeSlots(setStorageAt(store, bigEndianAdd(baseKey, slotIndex),
                                    slotData),
                       baseKey, slotIndex + 1,
                       SubSeq(rest, toCopy + 1, Len(rest)))

\* the storage after data was written under (pointer, subPointer): slot 0
\* holds the length and the first 28 bytes, each later slot 32 bytes, zero
\* padded; slots the array does not reach are left as they are
storeMultiSlotBytes(pointer, subPointer, data) ==
    LET length == Len(data)
        baseKey == encodePointer(pointer, subPointer)
        firstChunkSize == IF length < FirstChunkSize THEN length
                          ELSE FirstChunkSize
        slot0 == padded(<<LengthByte(length, 1), LengthByte(length, 2),
                          LengthByte(length, 3), LengthByte(length, 4)>>
                        \o SubSeq(data, 1, firstChunkSize))
    IN writeSlots(setStorageAt(slots, baseKey, slot0), baseKey, 1,
                  SubSeq(data, firstChunkSize + 1, length))

\* the bytes of the slots from slotIndex on, until remaining bytes are read
RECURSIVE readSlots(_, _, _)
readSlots(baseKey, slotIndex, remaining) ==
    IF remaining <= 0 THEN <<>>
    ELSE LET slotData == getStorageAt(bigEndianAdd(baseKey, slotIndex))
             toCopy == IF remaining < SlotBytes THEN remaining ELSE SlotBytes
         IN SubSeq(slotData, 1, toCopy)
              \o readSlots(baseKey, slotIndex + 1, remaining - SlotBytes)

\* the byte array read back from (pointer, subPointer): the length and the
\* first 28 bytes from slot 0, the rest from the slots that follow
loadMultiSlotBytes(pointer, subPointer) ==
    LET baseKey == encodePointer(pointer, subPointer)
        slot0 == getStorageAt(baseKey)
        length == slot0[1] * 256 ^ 3 + slot0[2] * 256 ^ 2 + slot0[3] * 256
                    + slot0[4]
        firstChunkSize == IF length < FirstChunkSize THEN length
                          ELSE FirstChunkSize
    IN SubSeq(slot0, LengthBytes + 1, LengthBytes + firstChunkSize)
         \o readSlots(baseKey, 1, length - FirstChunkSize)

(* Checks *)

ensureOwner(sender) ==
    IF sender # switchOwner THEN "Only owner can call this method" ELSE OK

\* ensureActive, were the status not tested
ensureActive_AnyStatus == OK

ensureActive ==
    IF status # STATUS_ACTIVE THEN "Switch is not active" ELSE OK

\* the two checks the owner's operations on an active switch start with
ensureOwnerAndActive(sender) ==
    IF ensureOwner(sender) # OK THEN ensureOwner(sender) ELSE ensureActive

(* Operations *)

DeadMansSwitch_onDeployment(ownerAddr, beneficiaryAddr, interval, grace) ==
    /\ ~switchDeployed
    /\ IF ownerAddr = ZeroAddress
       THEN SwitchRevert("DeadMansSwitch.onDeployment",
                         "Owner cannot be zero address")
       ELSE IF beneficiaryAddr = ZeroAddress
       THEN SwitchRevert("DeadMansSwitch.onDeployment",
                         "Beneficiary cannot be zero address")
       ELSE IF interval = 0
       THEN SwitchRevert("DeadMansSwitch.onDeployment",
                         "Heartbeat interval must be greater than zero")
       ELSE IF grace = 0
       THEN SwitchRevert("DeadMansSwitch.onDeployment",
                         "Grace period must be greater than zero")
       ELSE /\ switchDeployed' = TRUE
            /\ switchOwner' = ownerAddr
            /\ beneficiary' = beneficiaryAddr
            /\ heartbeatInterval' = interval
            /\ gracePeriod' = grace
            /\ lastCheckin' = blockNumber
            /\ status' = STATUS_ACTIVE
            /\ chunkCount' = u256Zero
            /\ triggerBlock' = 0
            /\ emitted' = <<>>
            /\ Outcome("DeadMansSwitch.onDeployment", OK, 0, <<>>)
            /\ UNCHANGED slots

checkin(sender) ==
    /\ switchDeployed
    /\ IF ensureOwnerAndActive(sender) # OK
       THEN SwitchRevert("checkin", ensureOwnerAndActive(sender))
       ELSE /\ lastCheckin' = blockNumber
            /\ emitted' = <<CheckedInEvent(switchOwner, blockNumber)>>
            /\ Outcome("checkin", OK, TRUE, <<>>)
            /\ UNCHANGED <<switchDeployed, heartbeatInterval, gracePeriod,
                           status, chunkCount, triggerBlock, switchOwner,
                           beneficiary, slots>>

storeData(sender, chunkIndex, encryptedData) ==
    /\ switchDeployed
    /\ IF ensureOwnerAndActive(sender) # OK
       THEN SwitchRevert("storeData", ensureOwnerAndActive(sender))
       ELSE IF Len(encryptedData) = 0
       THEN SwitchRevert("storeData", "Data cannot be empty")
       ELSE IF storeMultiSlotBytesCheck(encryptedData) # OK
       THEN SwitchRevert("storeData", storeMultiSlotBytesCheck(encryptedData))
       ELSE /\ slots' = storeMultiSlotBytes(dataChunksPointer,
                                            u256ToSubPointer(chunkIndex),
                                            encryptedData)
            /\ UNCHANGED <<switchDeployed, lastCheckin, heartbeatInterval,
                           gracePeriod, status, triggerBlock, switchOwner,
                           beneficiary>>
            /\ IF indexPlusOneOverflows(chunkIndex)
               THEN /\ Outcome("storeData", OverflowMsg, 0, <<>>)
                    /\ emitted' = <<>>
                    /\ UNCHANGED chunkCount
               ELSE /\ chunkCount' =
                         IF u256Gt(indexPlusOne(chunkIndex), chunkCount)
                         THEN indexPlusOne(chunkIndex)
                         ELSE chunkCount
                    /\ emitted' = <<DataStoredEvent(chunkIndex,
                                                    Len(encryptedData))>>
                    /\ Outcome("storeData", OK, TRUE, <<>>)

storeDecryptionKey(sender, encryptedKey) ==
    /\ switchDeployed
    /\ IF ensureOwnerAndActive(sender) # OK
       THEN SwitchRevert("storeDecryptionKey", ensureOwnerAndActive(sender))
       ELSE IF Len(encryptedKey) = 0
       THEN SwitchRevert("storeDecryptionKey", "Encrypted key cannot be empty")
       ELSE IF storeMultiSlotBytesCheck(encryptedKey) # OK
       THEN SwitchRevert("storeDecryptionKey",
                         storeMultiSlotBytesCheck(encryptedKey))
       ELSE /\ slots' = storeMultiSlotBytes(encryptedKeyPointer, EMPTY_POINTER,
                                            encryptedKey)
            /\ emitted' = <<>>
            /\ Outcome("storeDecryptionKey", OK, TRUE, <<>>)
            /\ UNCHANGED <<switchDeployed, lastCheckin, heartbeatInterval,
                           gracePeriod, status, chunkCount, triggerBlock,
                           switchOwner, beneficiary>>

\* the checks of trigger, were the deadline block itself past the deadline
triggerCheck_AtDeadline ==
    IF status = STATUS_TRIGGERED
    THEN "Switch already triggered"
    ELSE IF status = STATUS_CANCELLED
    THEN "Switch has been cancelled"
    ELSE IF SwitchAddOverflows(lastCheckin, heartbeatInterval)
    THEN OverflowMsg
    ELSE IF blockNumber < SwitchSafeMathAdd(lastCheckin, heartbeatInterval)
    THEN "Heartbeat has not expired yet"
    ELSE OK

\* the checks of trigger, in the order the code makes them
triggerCheck ==
    IF status = STATUS_TRIGGERED
    THEN "Switch already triggered"
    ELSE IF status = STATUS_CANCELLED
    THEN "Switch has been cancelled"
    ELSE IF SwitchAddOverflows(lastCheckin, heartbeatInterval)
    THEN OverflowMsg
    ELSE IF blockNumber <= SwitchSafeMathAdd(lastCheckin, heartbeatInterval)
    THEN "Heartbeat has not expired yet"
    ELSE OK

trigger ==
    /\ switchDeployed
    /\ IF triggerCheck # OK
       THEN SwitchRevert("trigger", triggerCheck)
       ELSE /\ status' = STATUS_TRIGGERED
            /\ triggerBlock' = blockNumber
            /\ emitted' = <<TriggeredEvent(beneficiary, blockNumber)>>
            /\ Outcome("trigger", OK, TRUE, <<>>)
            /\ UNCHANGED <<switchDeployed, lastCheckin, heartbeatInterval,
                           gracePeriod, chunkCount, switchOwner, beneficiary,
                           slots>>

\* the checks of cancel, were the grace period not tested
cancelCheck_NoGraceTest(sender) ==
    IF ensureOwner(sender) # OK
    THEN ensureOwner(sender)
    ELSE IF status # STATUS_TRIGGERED
    THEN "Switch is not triggered"
    ELSE OK

\* the checks of cancel, in the order the code makes them
cancelCheck(sender) ==
    IF ensureOwner(sender) # OK
    THEN ensureOwner(sender)
    ELSE IF status # STATUS_TRIGGERED
    THEN "Switch is not triggered"
    ELSE IF SwitchAddOverflows(triggerBlock, gracePeriod)
    THEN OverflowMsg
    ELSE IF blockNumber > SwitchSafeMathAdd(triggerBlock, gracePeriod)
    THEN "Grace period has expired"
    ELSE OK

\* cancel, were the trigger block kept
cancel_KeepsTriggerBlock(sender) ==
    /\ switchDeployed
    /\ IF cancelCheck(sender) # OK
       THEN SwitchRevert("cancel", cancelCheck(sender))
       ELSE /\ status' = STATUS_ACTIVE
            /\ lastCheckin' = blockNumber
            /\ emitted' = <<CancelledEvent(switchOwner, blockNumber)>>
            /\ Outcome("cancel", OK, TRUE, <<>>)
            /\ UNCHANGED <<switchDeployed, heartbeatInterval, gracePeriod,
                           chunkCount, switchOwner, beneficiary, slots,
                           triggerBlock>>

cancel(sender) ==
    /\ switchDeployed
    /\ IF cancelCheck(sender) # OK
       THEN SwitchRevert("cancel", cancelCheck(sender))
       ELSE /\ status' = STATUS_ACTIVE
            /\ lastCheckin' = blockNumber
            /\ triggerBlock' = 0
            /\ emitted' = <<CancelledEvent(switchOwner, blockNumber)>>
            /\ Outcome("cancel", OK, TRUE, <<>>)
            /\ UNCHANGED <<switchDeployed, heartbeatInterval, gracePeriod,
                           chunkCount, switchOwner, beneficiary, slots>>

updateBeneficiary(sender, newBeneficiary) ==
    /\ switchDeployed
    /\ IF ensureOwnerAndActive(sender) # OK
       THEN SwitchRevert("updateBeneficiary", ensureOwnerAndActive(sender))
       ELSE IF newBeneficiary = ZeroAddress
       THEN SwitchRevert("updateBeneficiary",
                         "Beneficiary cannot be zero address")
       ELSE /\ beneficiary' = newBeneficiary
            /\ emitted' = <<BeneficiaryUpdatedEvent(beneficiary,
                                                    newBeneficiary)>>
            /\ Outcome("updateBeneficiary", OK, TRUE, <<>>)
            /\ UNCHANGED <<switchDeployed, lastCheckin, heartbeatInterval,
                           gracePeriod, status, chunkCount, triggerBlock,
                           switchOwner, slots>>

updateInterval(sender, newInterval) ==
    /\ switchDeployed
    /\ IF ensureOwnerAndActive(sender) # OK
       THEN SwitchRevert("updateInterval", ensureOwnerAndActive(sender))
       ELSE IF newInterval = 0
       THEN SwitchRevert("updateInterval",
                         "Interval must be greater than zero")
       ELSE /\ heartbeatInterval' = newInterval
            /\ emitted' = <<>>
            /\ Outcome("updateInterval", OK, TRUE, <<>>)
            /\ UNCHANGED <<switchDeployed, lastCheckin, gracePeriod, status,
                           chunkCount, triggerBlock, switchOwner, beneficiary,
                           slots>>

getStatus == switchDeployed /\ SwitchView("getStatus", status)

getLastCheckin == switchDeployed /\ SwitchView("getLastCheckin", lastCheckin)

getData(chunkIndex) ==
    /\ switchDeployed
    /\ IF ~u256Gt(chunkCount, chunkIndex)
       THEN SwitchRevert("getData", "Chunk index out of bounds")
       ELSE SwitchView("getData",
                       loadMultiSlotBytes(dataChunksPointer,
                                          u256ToSubPointer(chunkIndex)))

\* getDecryptionKey, were the status not tested
getDecryptionKey_AnyStatus ==
    /\ switchDeployed
    /\ SwitchView("getDecryptionKey",
                  loadMultiSlotBytes(encryptedKeyPointer, EMPTY_POINTER))

getDecryptionKey ==
    /\ switchDeployed
    /\ IF status # STATUS_TRIGGERED
       THEN SwitchRevert("getDecryptionKey", "Switch has not been triggered")
       ELSE SwitchView("getDecryptionKey",
                       loadMultiSlotBytes(encryptedKeyPointer, EMPTY_POINTER))

getChunkCount == switchDeployed /\ SwitchView("getChunkCount", chunkCount)

isExpired ==
    /\ switchDeployed
    /\ IF SwitchAddOverflows(lastCheckin, heartbeatInterval)
       THEN SwitchRevert("isExpired", OverflowMsg)
       ELSE SwitchView("isExpired",
                       blockNumber > SwitchSafeMathAdd(lastCheckin, heartbeatInterval))

(* The switch under any sequence of calls, as the blocks go by *)

\* the read operations of the switch
SwitchViews ==
    {"getStatus", "getLastCheckin", "getData", "getDecryptionKey",
     "getChunkCount", "isExpired"}

\* A call that threw before writing, and a read, leave the switch as it
\* was: calls are followed on from the states no such call has just ended
\* in (storeData throws on overflow after its write).
SwitchWrote ==
    /\ last.op \notin SwitchViews
    /\ last.err = OK \/ (last.op = "storeData" /\ last.err = OverflowMsg)

\* a call of the switch leaves the marketplace, the block and the owner's
\* presence alone; an owner who has stopped calling makes no call
SwitchCall(sender, call) ==
    /\ SwitchWrote
    /\ ~(ownerAway /\ sender = switchOwner)
    /\ call
    /\ UNCHANGED <<stack, storage, history, quietWrites, blockNumber, ownerAway>>

\* the chain produces the next block; the outcome of the last call is no
\* longer at hand
AdvanceBlock ==
    /\ blockNumber < MaxBlock
    /\ blockNumber' = blockNumber + 1
    /\ last' = [op |-> "none", err |-> OK, ret |-> 0, calls |-> <<>>]
    /\ emitted' = <<>>
    /\ UNCHANGED <<stack, storage, history, quietWrites, switchStorage, ownerAway>>

\* the owner stops calling the switch, for good
OwnerGoesAway ==
    /\ switchDeployed
    /\ SwitchWrote
    /\ ~ownerAway
    /\ ownerAway' = TRUE
    /\ UNCHANGED <<stack, storage, last, history, quietWrites, switchStorage, emitted,
                   blockNumber>>

\* one call of the switch, or its deployment, by anyone with any arguments;
\* a new block; the owner falling silent
SwitchNext ==
    \/ /\ SwitchWrote
       /\ \E ownerAddr \in SwitchOwners,
             beneficiaryAddr \in SwitchBeneficiaries,
             interval \in Intervals, grace \in GracePeriods :
            DeadMansSwitch_onDeployment(ownerAddr, beneficiaryAddr, interval,
                                        grace)
       /\ UNCHANGED <<stack, storage, history, quietWrites, blockNumber, ownerAway>>
    \/ \E sender \in Senders : SwitchCall(sender, checkin(sender))
    \/ \E sender \in Senders, chunkIndex \in ChunkIndexes,
          encryptedData \in ChunkData :
         SwitchCall(sender, storeData(sender, chunkIndex, encryptedData))
    \/ \E sender \in Senders, encryptedKey \in EncryptedKeys :
         SwitchCall(sender, storeDecryptionKey(sender, encryptedKey))
    \/ \E sender \in Senders : SwitchCall(sender, trigger)
    \/ \E sender \in Senders : SwitchCall(sender, cancel(sender))
    \/ \E sender \in Senders, newBeneficiary \in NewBeneficiaries :
         SwitchCall(sender, updateBeneficiary(sender, newBeneficiary))
    \/ \E sender \in Senders, newInterval \in Intervals :
         SwitchCall(sender, updateInterval(sender, newInterval))
    \/ \E sender \in Senders : SwitchCall(sender, getStatus)
    \/ \E sender \in Senders : SwitchCall(sender, getLastCheckin)
    \/ \E sender \in Senders, chunkIndex \in ChunkIndexes :
         SwitchCall(sender, getData(chunkIndex))
    \/ \E sender \in Senders : SwitchCall(sender, getDecryptionKey)
    \/ \E sender \in Senders : SwitchCall(sender, getChunkCount)
    \/ \E sender \in Senders : SwitchCall(sender, isExpired)
    \/ AdvanceBlock
    \/ OwnerGoesAway

SwitchSpec == Init /\ [][SwitchNext]_vars

\* the same, where the chain does not stop producing blocks
SwitchLiveSpec == SwitchSpec /\ WF_vars(AdvanceBlock)

----------------------------------------------------------------------------
(* The error taxonomy of spec section 7, as sets of Revert messages *)

InvalidArgument ==
    {"Invalid collection address", "Price must be greater than zero",
     "Bid amount must be greater than zero", "Invalid fee recipient",
     "Fee exceeds maximum", "Royalty exceeds maximum 10%",
     "Invalid royalty recipient", "Fee exceeds maximum 5%",
     "Invalid recipient address"}
Unauthorized ==
    {"Only seller can cancel", "Only bidder can cancel",
     "Caller is not the token owner", "Only deployer can call this method"}
NotRegistered == {"Collection not registered"}
Overflow == {OverflowMsg}
NotFound == {"Listing does not exist", "Bid does not exist"}
Inactive == {"Listing is not active", "Bid is not active"}
RemoteCallFailed ==
    {"ownerOf call failed", "isApprovedForAll call failed",
     "NFT transfer failed"}

\* an id is valid iff 1 <= id < nextId
ListingExists(id) == id >= 1 /\ id < nextListingId
BidExists(id) == id >= 1 /\ id < nextBidId

----------------------------------------------------------------------------
(* The dead man's switch *)

\* the heartbeat has run out: the block is past lastCheckin +
\* heartbeatInterval, the sum taken in the integers
TriggerDue ==
    /\ status = STATUS_ACTIVE
    /\ blockNumber > lastCheckin + heartbeatInterval

\* a call of trigger would succeed
TriggerEnabled == switchDeployed /\ triggerCheck = OK

\* what a trigger step and an isExpired step do
TriggerWhenDue ==
    /\ last'.op = "trigger" =>
         Gives(trigger,
               /\ (last'.err = OK) <=> TriggerDue
               /\ last'.err = OK =>
                    /\ status' = STATUS_TRIGGERED
                    /\ triggerBlock' = blockNumber
                    /\ emitted' = <<TriggeredEvent(beneficiary, blockNumber)>>
                    /\ UNCHANGED <<lastCheckin, heartbeatInterval, gracePeriod,
                                   chunkCount, switchOwner, beneficiary, slots>>
               /\ last'.err # OK => UNCHANGED switchStorage)
    /\ last'.op = "isExpired" =>
         Gives(isExpired,
               /\ (last'.err = OK /\ last'.ret = TRUE) <=>
                    blockNumber > lastCheckin + heartbeatInterval
               /\ (status = STATUS_ACTIVE) =>
                    ((last'.err = OK /\ last'.ret = TRUE) <=> TriggerEnabled))

\* the owner has stopped calling an active switch
OwnerSilent == ownerAway /\ switchDeployed /\ status = STATUS_ACTIVE

\* the deadline lastCheckin + heartbeatInterval is a word, and a block
\* height the model does not go up to
BeyondMaxBlock ==
    /\ ~SwitchAddOverflows(lastCheckin, heartbeatInterval)
    /\ lastCheckin + heartbeatInterval >= MaxBlock

\* there is a block height, from the current one on, at which the checks of
\* trigger pass: heights are words
SomeHeightEnablesTrigger ==
    \E height \in blockNumber..SwitchU256Max :
      /\ status = STATUS_ACTIVE
      /\ ~SwitchAddOverflows(lastCheckin, heartbeatInterval)
      /\ height > SwitchSafeMathAdd(lastCheckin, heartbeatInterval)

\* C28 as stated: trigger succeeds, for any caller, exactly when the status
\* is ACTIVE and the block is past lastCheckin + heartbeatInterval, which is
\* when isExpired returns true on an active switch, and it then sets the
\* status to TRIGGERED and triggerBlock to the block; and once the owner has
\* stopped calling, as the blocks go by trigger becomes enabled, whatever
\* the interval: there is a height at which its checks pass, and it is
\* reached (the deadlines past the heights of the model are left out).
C28_TriggerEventuallyEnabled ==
    /\ [][TriggerWhenDue]_vars
    /\ [](OwnerSilent => SomeHeightEnablesTrigger)
    /\ (OwnerSilent /\ ~BeyondMaxBlock) ~> TriggerEnabled

\* C28, amended: the same of trigger and isExpired; and once the owner has
\* stopped calling, as the blocks go by trigger becomes enabled provided the
\* sum lastCheckin + heartbeatInterval is less than the greatest word: where
\* it overflows, trigger fails at every block.
C28_TriggerWhenDue ==
    /\ [][TriggerWhenDue]_vars
    /\ [][(last'.op = "trigger" /\ status = STATUS_ACTIVE
              /\ SwitchAddOverflows(lastCheckin, heartbeatInterval))
            => last'.err = OverflowMsg]_vars
    /\ []((OwnerSilent /\ lastCheckin + heartbeatInterval < SwitchU256Max)
            => SomeHeightEnablesTrigger)
    /\ (OwnerSilent /\ ~SwitchAddOverflows(lastCheckin, heartbeatInterval)
          /\ ~BeyondMaxBlock) ~> TriggerEnabled

\* someone other than the silent owner has triggered the switch, at a block
\* past the deadline
C28_Witness ==
    /\ ownerAway
    /\ last.op = "trigger" /\ last.err = OK
    /\ status = STATUS_TRIGGERED
    /\ triggerBlock = blockNumber
    /\ blockNumber > lastCheckin + heartbeatInterval

\* the encrypted key the storage holds
StoredKey == loadMultiSlotBytes(encryptedKeyPointer, EMPTY_POINTER)

\* C29: getDecryptionKey succeeds exactly when the status is TRIGGERED and
\* then returns the encrypted key last stored by storeDecryptionKey, which
\* no other operation changes; on an active switch, a cancelled trigger
\* behind it or not, it fails; and the status becomes TRIGGERED by a
\* successful trigger only, so that no key is returned before one.
C29_KeyOnlyWhenTriggered ==
    [][/\ last'.op = "getDecryptionKey" =>
            Gives(getDecryptionKey,
                  /\ (last'.err = OK) <=> (status = STATUS_TRIGGERED)
                  /\ last'.err = OK => last'.ret = StoredKey
                  /\ status = STATUS_ACTIVE =>
                       last'.err = "Switch has not been triggered"
                  /\ UNCHANGED switchStorage)
       /\ last'.op = "storeDecryptionKey" =>
            \A sender \in Senders, encryptedKey \in EncryptedKeys :
              Gives(storeDecryptionKey(sender, encryptedKey),
                    IF last'.err = OK
                    THEN StoredKey' = encryptedKey
                    ELSE StoredKey' = StoredKey)
       /\ (slots' # slots /\ StoredKey' # StoredKey) =>
            last'.op = "storeDecryptionKey" /\ last'.err = OK
       /\ (status' = STATUS_TRIGGERED /\ status # STATUS_TRIGGERED) =>
            last'.op = "trigger" /\ last'.err = OK]_vars

\* the key, stored on two slots, is returned by a triggered switch whose
\* owner had checked in, or cancelled a trigger, after the deployment block
C29_Witness ==
    /\ last.op = "getDecryptionKey" /\ last.err = OK
    /\ last.ret = LongKey
    /\ status = STATUS_TRIGGERED
    /\ lastCheckin > 0

\* the switch was triggered and the grace period is over: the block is past
\* triggerBlock + gracePeriod, the sum taken in the integers
GraceExpired ==
    /\ switchDeployed
    /\ status = STATUS_TRIGGERED
    /\ blockNumber > triggerBlock + gracePeriod

\* C30: cancel succeeds only for the owner, only in status TRIGGERED and
\* only while the block is not past triggerBlock + gracePeriod (and, the sum
\* being a word, always then); it sets the status to ACTIVE, lastCheckin to
\* the block and triggerBlock to 0, and a failed cancel writes nothing.
\* Once the block is past triggerBlock + gracePeriod no step changes the
\* status, nor ends the expiry: TRIGGERED is permanent.
C30_CancelWithinGrace ==
    [][/\ last'.op = "cancel" =>
            \A sender \in Senders :
              Gives(cancel(sender),
                    /\ (last'.err = OK) <=>
                         /\ sender = switchOwner
                         /\ status = STATUS_TRIGGERED
                         /\ blockNumber <= triggerBlock + gracePeriod
                         /\ ~SwitchAddOverflows(triggerBlock, gracePeriod)
                    /\ last'.err = OK =>
                         /\ status' = STATUS_ACTIVE
                         /\ lastCheckin' = blockNumber
                         /\ triggerBlock' = 0
                         /\ emitted' = <<CancelledEvent(switchOwner,
                                                        blockNumber)>>
                         /\ UNCHANGED <<heartbeatInterval, gracePeriod,
                                        chunkCount, switchOwner, beneficiary,
                                        slots>>
                    /\ last'.err # OK => UNCHANGED switchStorage)
       /\ GraceExpired => (status' = status /\ GraceExpired')]_vars

\* the owner has cancelled a trigger in its grace period, blocks after the
\* deployment
C30_Witness ==
    /\ last.op = "cancel" /\ last.err = OK
    /\ emitted = <<CancelledEvent(switchOwner, blockNumber)>>
    /\ status = STATUS_ACTIVE
    /\ lastCheckin = blockNumber
    /\ triggerBlock = 0
    /\ blockNumber > 1

\* the verdict on a call of one of the owner's operations by someone else,
\* or on a switch that is not active: it fails, in ensureOwner or in
\* ensureActive, and nothing is written or emitted
OwnerOpRefused(sender) ==
    (sender # switchOwner \/ status # STATUS_ACTIVE) =>
      /\ last'.err = (IF sender # switchOwner
                      THEN "Only owner can call this method"
                      ELSE "Switch is not active")
      /\ emitted' = <<>>
      /\ UNCHANGED switchStorage

\* C31: checkin, storeData, storeDecryptionKey, updateBeneficiary and
\* updateInterval called by someone other than the owner, or while the
\* status is not ACTIVE, fail and leave lastCheckin, beneficiary,
\* heartbeatInterval, chunkCount and the stored bytes (the whole storage of
\* the switch) unchanged; so they take effect only for the owner of an
\* active switch.
C31_OwnerOpsNeedOwnerAndActive ==
    [][/\ last'.op = "checkin" =>
            \A sender \in Senders :
              Gives(checkin(sender), OwnerOpRefused(sender))
       /\ last'.op = "storeData" =>
            \A sender \in Senders, chunkIndex \in ChunkIndexes,
               encryptedData \in ChunkData :
              Gives(storeData(sender, chunkIndex, encryptedData),
                    OwnerOpRefused(sender))
       /\ last'.op = "storeDecryptionKey" =>
            \A sender \in Senders, encryptedKey \in EncryptedKeys :
              Gives(storeDecryptionKey(sender, encryptedKey),
                    OwnerOpRefused(sender))
       /\ last'.op = "updateBeneficiary" =>
            \A sender \in Senders, newBeneficiary \in NewBeneficiaries :
              Gives(updateBeneficiary(sender, newBeneficiary),
                    OwnerOpRefused(sender))
       /\ last'.op = "updateInterval" =>
            \A sender \in Senders, newInterval \in Intervals :
              Gives(updateInterval(sender, newInterval),
                    OwnerOpRefused(sender))
       /\ (last'.op \in {"checkin", "storeData", "storeDecryptionKey",
                          "updateBeneficiary", "updateInterval"}
             /\ switchStorage' # switchStorage) =>
            status = STATUS_ACTIVE]_vars

\* a storeData on a triggered switch holding a chunk and a key has failed
C31_Witness ==
    /\ last.op = "storeData"
    /\ last.err = "Switch is not active"
    /\ status = STATUS_TRIGGERED
    /\ chunkCount # u256Zero
    /\ loadMultiSlotBytes(encryptedKeyPointer, EMPTY_POINTER) = LongKey

\* C39: the status of the switch is ACTIVE or TRIGGERED in every state,
\* never CANCELLED, and getStatus returns no other value; triggerBlock is
\* not zero only while the status is TRIGGERED, and a switch triggered at
\* a block above 0 has triggerBlock, the block of the trigger, above 0.
C39_StatusActiveOrTriggered ==
    /\ [](/\ status \in {STATUS_ACTIVE, STATUS_TRIGGERED}
          /\ status # STATUS_CANCELLED
          /\ triggerBlock # 0 => status = STATUS_TRIGGERED
          /\ status = STATUS_TRIGGERED =>
               (lastCheckin < triggerBlock /\ triggerBlock <= blockNumber))
    /\ [][/\ last'.op = "getStatus" =>
                Gives(getStatus,
                      last'.ret = status
                        /\ last'.ret \in {STATUS_ACTIVE, STATUS_TRIGGERED})
          /\ (last'.op = "trigger" /\ last'.err = OK) =>
               (triggerBlock' = blockNumber /\ triggerBlock' > 0)
          /\ status' = STATUS_ACTIVE => triggerBlock' = 0]_vars

\* getStatus has returned TRIGGERED on a switch whose owner's last sign of
\* life came blocks after the deployment; triggerBlock is not zero
C39_Witness ==
    /\ last.op = "getStatus" /\ last.err = OK
    /\ last.ret = STATUS_TRIGGERED
    /\ triggerBlock > 0
    /\ lastCheckin > 1

----------------------------------------------------------------------------
(* Claims *)

\* the step is a call that begins, and waits for the remote call
Begins(op, pc) ==
    /\ Len(stack') = Len(stack) + 1
    /\ stack'[Len(stack')].op = op /\ stack'[Len(stack')].pc = pc

\* the step is the answer of the remote call to the innermost pending call
Answers(op, pc) ==
    /\ stack # <<>> /\ Top.op = op /\ Top.pc = pc
    /\ \/ stack' = Pop
       \/ Len(stack') = Len(stack) /\ stack' # stack

\* C1: per listing id and per bid id the only transitions of the active flag
\* are nonexistent -> Active, made by listNFT / placeBid for the id the
\* counter names, and Active -> Inactive, made by cancelListing or buyNFT /
\* cancelBid or acceptBid; every successful cancel and every buyNFT that
\* reaches its transfer call makes such a transition; an existing id stays
\* existing, and once its flag is false it is never true again.
C1_Lifecycle ==
    [][/\ nextListingId' >= nextListingId
       /\ nextBidId' >= nextBidId
       /\ \A id \in U256 :
            /\ (ListingExists(id) /\ listingActiveMap[id] = INACTIVE)
                  => listingActiveMap'[id] = INACTIVE
            /\ listingActiveMap'[id] # listingActiveMap[id] =>
                 \/ /\ ~ListingExists(id)
                    /\ id = nextListingId
                    /\ nextListingId' = id + 1
                    /\ listingActiveMap'[id] = ACTIVE
                    /\ last'.op = "listNFT"
                 \/ /\ ListingExists(id)
                    /\ listingActiveMap[id] = ACTIVE
                    /\ listingActiveMap'[id] = INACTIVE
                    /\ last'.op \in {"cancelListing", "buyNFT"}
            /\ (BidExists(id) /\ bidActiveMap[id] = INACTIVE)
                  => bidActiveMap'[id] = INACTIVE
            /\ bidActiveMap'[id] # bidActiveMap[id] =>
                 \/ /\ ~BidExists(id)
                    /\ id = nextBidId
                    /\ nextBidId' = id + 1
                    /\ bidActiveMap'[id] = ACTIVE
                    /\ last'.op = "placeBid"
                 \/ /\ BidExists(id)
                    /\ bidActiveMap[id] = ACTIVE
                    /\ bidActiveMap'[id] = INACTIVE
                    /\ last'.op \in {"cancelBid", "acceptBid"}
       /\ (\/ last'.op = "cancelListing" /\ last'.err = OK
           \/ Begins("buyNFT", "safeTransferFrom"))
            => \E id \in U256 :
                 /\ ListingExists(id)
                 /\ listingActiveMap[id] = ACTIVE
                 /\ listingActiveMap'[id] = INACTIVE
       /\ (last'.op = "cancelBid" /\ last'.err = OK)
            => \E id \in U256 :
                 /\ BidExists(id)
                 /\ bidActiveMap[id] = ACTIVE
                 /\ bidActiveMap'[id] = INACTIVE
      ]_vars

\* C1 witness: listing 1 was sold and is Inactive while a later listing,
\* made under a new id, is Active.
C1_Witness ==
    /\ ListingExists(1) /\ listingActiveMap[1] = INACTIVE
    /\ ListingExists(2) /\ listingActiveMap[2] = ACTIVE
    /\ \E i \in 1..Len(events) : events[i].name = "ListingSold"

\* C2: after deployment the listing ids returned by listNFT are exactly
\* 1 .. nextListingId-1 and the bid ids returned by placeBid are exactly
\* 1 .. nextBidId-1, each returned once.
C2_DenseIds ==
    deployed =>
        /\ {returnedListingIds[i] : i \in 1..Len(returnedListingIds)}
              = 1..(nextListingId - 1)
        /\ Len(returnedListingIds) = nextListingId - 1
        /\ {returnedBidIds[i] : i \in 1..Len(returnedBidIds)}
              = 1..(nextBidId - 1)
        /\ Len(returnedBidIds) = nextBidId - 1

\* C2 witness: two listing ids and a bid id have been returned.
C2_Witness ==
    /\ Len(returnedListingIds) = 2
    /\ Len(returnedBidIds) = 1

\* a listNFT call that was pending before the step is still pending after
\* it, at the same point: the step is not one of its own
ListNFTWaits ==
    \E i \in 1..Len(stack) :
      /\ stack[i].op = "listNFT"
      /\ i <= Len(stack') /\ stack'[i] = stack[i]

\* C3: a listNFT that succeeds returns the value the listing counter had
\* immediately before the call and leaves it at that value plus one, and a
\* listNFT that fails leaves it as it was before the call: the step that
\* ends the call returns the counter and adds one, or fails and leaves it,
\* and the counter does not move between the entry of a call and its end.
C3_ListReturnsEntryCounter ==
    [][/\ last'.op = "listNFT" =>
            IF last'.err = OK
            THEN last'.ret = nextListingId /\ nextListingId' = nextListingId + 1
            ELSE nextListingId' = nextListingId
       /\ ListNFTWaits => nextListingId' = nextListingId
      ]_vars

\* C3, amended: a listNFT that succeeds returns the value the listing
\* counter has when the call allocates the id, after both remote calls were
\* answered, and leaves the counter at that value plus one; no step of a
\* listNFT that fails, and no earlier step of one that succeeds, changes the
\* counter.  While the call waits for an answer the counter moves only by a
\* listNFT made meanwhile that succeeds, and then upwards by one.
C3_ListReturnsCounter ==
    [][/\ last'.op = "listNFT" =>
            IF last'.err = OK
            THEN last'.ret = nextListingId /\ nextListingId' = nextListingId + 1
            ELSE nextListingId' = nextListingId
       /\ (ListNFTWaits /\ nextListingId' # nextListingId) =>
            /\ last'.op = "listNFT" /\ last'.err = OK
            /\ nextListingId' = nextListingId + 1
      ]_vars

\* C3 witness: a listNFT waits for the answer of ownerOf; it was called with
\* the counter at 1, a listNFT made meanwhile has returned 1, and the
\* counter is at 2.
C3_Witness ==
    /\ Len(stack) = 1
    /\ Top.op = "listNFT" /\ Top.pc = "ownerOf"
    /\ last.op = "listNFT" /\ last.err = OK /\ last.ret = 1
    /\ nextListingId = 2

\* a pending listNFT comes to wait for the answer of isApprovedForAll
ReachesApproval ==
    \E i \in 1..Len(stack') :
      /\ stack'[i].op = "listNFT" /\ stack'[i].pc = "isApprovedForAll"
      /\ i > Len(stack) \/ stack[i] # stack'[i]

\* C4: listNFT by a caller creates a listing only if, in that same call,
\* ownerOf succeeded and returned the caller and isApprovedForAll succeeded
\* and returned true; with any other answer the call fails there and
\* listings, counters, totalListings and the event log are unchanged,
\* whatever earlier calls were answered: the call asks isApprovedForAll only
\* after its own ownerOf call named the caller, and writes only after its
\* own isApprovedForAll call said true.
C4_ListVerifiesEachCall ==
    [][/\ ReachesApproval =>
            \E ownerOfResult \in OwnerOfResults :
              /\ ownerOfResult.success /\ ownerOfResult.data = Top.sender
              /\ listNFT_verifyOwnership(ownerOfResult)
       /\ (last'.op = "listNFT" /\ last'.err = OK) =>
            \E approvalResult \in ApprovalResults :
              /\ approvalResult.success /\ approvalResult.data
              /\ listNFT_record(approvalResult)
       /\ last'.op = "listNFT" =>
            /\ (Len(stack') > Len(stack) \/ stack' = stack) =>
                 /\ UNCHANGED <<storage, history>>
                 /\ last'.err = Pending =>
                      /\ Begins("listNFT", "ownerOf")
                      /\ last'.calls =
                           <<ownerOfCall(stack'[Len(stack')].collectionAddr,
                                         stack'[Len(stack')].tokenId)>>
            /\ stack # <<>> => \A ownerOfResult \in OwnerOfResults :
                 Gives(listNFT_verifyOwnership(ownerOfResult),
                   /\ UNCHANGED <<storage, history>>
                   /\ IF /\ ownerOfResult.success
                         /\ ownerOfResult.data = Top.sender
                      THEN /\ last'.err = Pending
                           /\ last'.calls =
                                <<isApprovedForAllCall(Top.collectionAddr,
                                                       Top.sender)>>
                      ELSE /\ last'.err \notin {OK, Pending}
                           /\ stack' = Pop)
            /\ \A approvalResult \in ApprovalResults :
                 Gives(listNFT_record(approvalResult),
                   /\ stack' = Pop
                   /\ ~(approvalResult.success /\ approvalResult.data) =>
                        /\ last'.err \notin {OK, Pending}
                        /\ UNCHANGED <<storage, history>>)
      ]_vars

\* C4 witness: after one listing was created, a later listNFT was refused
\* because the marketplace was not (or no longer) approved.
C4_Witness ==
    /\ nextListingId = 2
    /\ totalListings = 1
    /\ last.op = "listNFT"
    /\ last.err = "Marketplace not approved for transfers"

\* C5: listNFT and placeBid reject a null collection and a zero price /
\* amount at once, before any remote call and without changing state, and
\* every existing listing has price > 0 and a non-null collection, every
\* existing bid amount > 0 and a non-null collection.
C5_PositiveTerms ==
    /\ [](\A id \in U256 :
            /\ ListingExists(id) =>
                 listingPriceMap[id] > 0 /\ listingCollectionMap[id] # 0
            /\ BidExists(id) =>
                 bidAmountMap[id] > 0 /\ bidCollectionMap[id] # 0)
    /\ [][(/\ last'.op \in {"listNFT", "placeBid"}
           /\ ~(/\ last'.err \in InvalidArgument
                /\ last'.calls = <<>>
                /\ UNCHANGED <<storage, history, stack>>)) =>
          \A sender \in Senders, collectionAddr \in Collections,
             tokenId \in TokenIds :
            /\ \A bidAmountSatoshis \in BidAmounts :
                 (collectionAddr = ZeroAddress \/ bidAmountSatoshis = 0) =>
                   ~placeBid(sender, collectionAddr, tokenId,
                             bidAmountSatoshis)
            /\ \A price \in Prices :
                 (collectionAddr = ZeroAddress \/ price = 0) =>
                   ~listNFT_validate(sender, collectionAddr, tokenId, price)
         ]_vars

\* C5 witness: a listing and a bid exist and a call with a null collection
\* has just been rejected.
C5_Witness ==
    /\ ListingExists(1)
    /\ BidExists(1)
    /\ last.err = "Invalid collection address"

\* C6: cancelListing deactivates a listing only for the caller recorded as
\* its seller and cancelBid only for the recorded bidder; any other caller
\* of an active id fails with Unauthorized and nothing changes.
C6_OnlyOwnerCancels ==
    [][last'.op \in {"cancelListing", "cancelBid"} =>
       \A sender \in Senders, id \in U256 :
         /\ Gives(cancelListing(sender, id),
              /\ listingActiveMap'[id] # listingActiveMap[id]
                   => addressToU256(sender) = listingSellerMap[id]
              /\ (/\ ListingExists(id)
                  /\ listingActiveMap[id] = ACTIVE
                  /\ addressToU256(sender) # listingSellerMap[id])
                   => /\ last'.err \in Unauthorized
                      /\ UNCHANGED <<storage, history>>)
         /\ Gives(cancelBid(sender, id),
              /\ bidActiveMap'[id] # bidActiveMap[id]
                   => addressToU256(sender) = bidBidderMap[id]
              /\ (/\ BidExists(id)
                  /\ bidActiveMap[id] = ACTIVE
                  /\ addressToU256(sender) # bidBidderMap[id])
                   => /\ last'.err \in Unauthorized
                      /\ UNCHANGED <<storage, history>>)
      ]_vars

\* C6 witness: a caller other than the seller was refused, and the listing
\* is still active.
C6_Witness ==
    /\ last.op = "cancelListing"
    /\ last.err = "Only seller can cancel"
    /\ ListingExists(1)
    /\ listingActiveMap[1] = ACTIVE
    /\ nextListingId = 2

\* the call before this one was a successful cancelListing / cancelBid of id
JustCancelledListing(id) ==
    /\ last.op = "cancelListing"
    /\ last.err = OK
    /\ Len(events) > 0
    /\ events[Len(events)] = ListingCancelledEvent(id)
JustCancelledBid(id) ==
    /\ last.op = "cancelBid"
    /\ last.err = OK
    /\ Len(events) > 0
    /\ events[Len(events)] = BidCancelledEvent(id)

\* C7: for an existing active id, cancelListing / cancelBid by the owner of
\* the record succeeds, and the same call made again right after it fails
\* with Inactive, changes no state and emits no event.
C7_CancelTwice ==
    [][last'.op \in {"cancelListing", "cancelBid"} =>
       \A sender \in Senders, id \in U256 :
         /\ Gives(cancelListing(sender, id),
              /\ (/\ ListingExists(id)
                  /\ listingActiveMap[id] = ACTIVE
                  /\ addressToU256(sender) = listingSellerMap[id])
                   => /\ last'.err = OK
                      /\ listingActiveMap'[id] = INACTIVE
                      /\ events' = Append(events, ListingCancelledEvent(id))
              /\ (/\ JustCancelledListing(id)
                  /\ addressToU256(sender) = listingSellerMap[id])
                   => /\ last'.err \in Inactive
                      /\ UNCHANGED <<storage, history>>)
         /\ Gives(cancelBid(sender, id),
              /\ (/\ BidExists(id)
                  /\ bidActiveMap[id] = ACTIVE
                  /\ addressToU256(sender) = bidBidderMap[id])
                   => /\ last'.err = OK
                      /\ bidActiveMap'[id] = INACTIVE
                      /\ events' = Append(events, BidCancelledEvent(id))
              /\ (/\ JustCancelledBid(id)
                  /\ addressToU256(sender) = bidBidderMap[id])
                   => /\ last'.err \in Inactive
                      /\ UNCHANGED <<storage, history>>)
      ]_vars

\* C7 witness: the only bid was cancelled and the second cancelBid has just
\* failed with Inactive.
C7_Witness ==
    /\ nextBidId = 2
    /\ Len(events) = 2
    /\ events[2] = BidCancelledEvent(1)
    /\ last.op = "cancelBid"
    /\ last.err = "Bid is not active"

\* C8: buyNFT called by the address recorded as the listing's seller fails
\* at once, leaves the listing as it was, totalVolume unchanged, issues no
\* transfer call and emits no event.
C8_SellerCannotBuy ==
    [][last'.op = "buyNFT" =>
       \A buyer \in Senders, id \in U256 :
         (ListingExists(id) /\ addressToU256(buyer) = listingSellerMap[id])
           => Gives(buyNFT_settle(buyer, id),
                /\ last'.err \notin {OK, Pending}
                /\ last'.calls = <<>>
                /\ UNCHANGED <<storage, history, stack>>)
      ]_vars

\* C8 witness: the seller of the active listing 1 tried to buy it.
C8_Witness ==
    /\ last.op = "buyNFT"
    /\ last.err = "Buyer cannot be seller"
    /\ listingActiveMap[1] = ACTIVE
    /\ totalVolume = 0

\* the prices and amounts of the calls that wait for their transfer call
RECURSIVE PendingVolume(_)
PendingVolume(frames) ==
    IF frames = <<>>
    THEN 0
    ELSE PendingVolume(Tail(frames))
           + (IF Head(frames).pc = "safeTransferFrom"
              THEN Head(frames).amount ELSE 0)

\* C9 (as claimed): when no call is pending, totalVolume equals the sum of
\* the settlement prices of all successful buyNFT and acceptBid calls.
C9_VolumeIsSettledSum == stack = <<>> => totalVolume = settledVolume

\* C9 (amended): totalVolume never decreases and changes only in buyNFT and
\* acceptBid; a call that passes its checks adds exactly the listing's price
\* / the bid's amount before its transfer call, and the addition stays when
\* the transfer call then fails; so totalVolume equals the sum of the prices
\* of the successful buyNFT and acceptBid calls plus those of the calls
\* whose transfer failed or is still awaited.
C9_VolumeAccounting ==
    /\ [](totalVolume
            = settledVolume + unsettledVolume + PendingVolume(stack))
    /\ [][/\ totalVolume' >= totalVolume
          /\ totalVolume' # totalVolume =>
               /\ last'.op \in {"buyNFT", "acceptBid"}
               /\ last'.err = Pending
               /\ stack'[Len(stack')].pc = "safeTransferFrom"
          /\ last'.op = "buyNFT" =>
               /\ \A buyer \in Senders, id \in U256 :
                    Gives(buyNFT_settle(buyer, id),
                      IF last'.err = Pending
                      THEN totalVolume' = totalVolume + listingPriceMap[id]
                      ELSE totalVolume' = totalVolume)
               /\ Answers("buyNFT", "safeTransferFrom") =>
                    /\ totalVolume' = totalVolume
                    /\ last'.err \in {OK, "NFT transfer failed"}
          /\ last'.op = "acceptBid" =>
               /\ Answers("acceptBid", "ownerOf") =>
                    IF last'.err = Pending
                    THEN totalVolume' = totalVolume + bidAmountMap[Top.id]
                    ELSE totalVolume' = totalVolume
               /\ Answers("acceptBid", "safeTransferFrom") =>
                    /\ totalVolume' = totalVolume
                    /\ last'.err \in {OK, "NFT transfer failed"}
         ]_vars

\* C9 witness: one trade settled and another failed in its transfer call.
C9_Witness ==
    /\ settledVolume > 0
    /\ unsettledVolume > 0
    /\ stack = <<>>

\* C10: totalListings is the number of listings ever created, whatever
\* cancelListing and buyNFT calls came between, and only a successful
\* listNFT changes it, by one.
C10_ListingCount ==
    /\ [](totalListings = Len(returnedListingIds))
    /\ [][/\ totalListings' # totalListings =>
               last'.op = "listNFT" /\ last'.err = OK
          /\ (last'.op = "listNFT" /\ last'.err = OK) =>
               totalListings' = totalListings + 1
         ]_vars

\* C10 witness: two listings were created with a cancellation in between.
C10_Witness ==
    /\ totalListings = 2
    /\ Len(events) = 3
    /\ events[2].name = "ListingCancelled"
    /\ events[3].name = "ListingCreated"

\* C11: the platform fee is at most MAX_PLATFORM_FEE_BPS and every
\* collection's royalty at most MAX_ROYALTY_BPS in every state; onDeployment
\* and setPlatformFee given a larger fee, and registerCollection and
\* updateRoyalty given a larger royalty, fail and change nothing.
C11_BpsBounds ==
    /\ [](/\ platformFeeBps <= MAX_PLATFORM_FEE_BPS
          /\ \A c \in Address : collectionRoyaltyBpsMap[c] <= MAX_ROYALTY_BPS)
    /\ [][~Refused =>
          /\ last'.op = "onDeployment" =>
               \A feeRecipient \in FeeRecipients, feeBps \in FeeBpsInputs :
                 feeBps > MAX_PLATFORM_FEE_BPS =>
                   ~onDeployment(feeRecipient, feeBps)
          /\ last'.op = "setPlatformFee" =>
               \A sender \in Senders, newFeeBps \in NewFeeBpsInputs :
                 newFeeBps > MAX_PLATFORM_FEE_BPS =>
                   ~setPlatformFee(sender, newFeeBps)
          /\ last'.op \in {"registerCollection", "updateRoyalty"} =>
               \A sender \in Senders, collectionAddr \in RoyaltyCollections,
                  bps \in RoyaltyBpsInputs, recipient \in RoyaltyRecipients :
                 bps > MAX_ROYALTY_BPS =>
                   /\ ~registerCollection(sender, collectionAddr, bps,
                                          recipient)
                   /\ ~updateRoyalty(sender, collectionAddr, bps, recipient)
         ]_vars

\* C11 witness: a collection holds the largest royalty allowed and the
\* administrator's setPlatformFee above the largest fee was refused.
C11_Witness ==
    /\ \E c \in Address : collectionRoyaltyBpsMap[c] = MAX_ROYALTY_BPS
    /\ platformFeeBps = MAX_PLATFORM_FEE_BPS
    /\ last.op = "setPlatformFee"
    /\ last.err = "Fee exceeds maximum 5%"

\* the operations of the administrator
AdminOps ==
    {"registerCollection", "setPlatformFee", "setPlatformFeeRecipient",
     "updateRoyalty"}

\* C12: registerCollection, setPlatformFee, setPlatformFeeRecipient and
\* updateRoyalty called by anyone but the deployer fail with Unauthorized
\* whatever the arguments and change nothing; the registry, the fee and the
\* fee recipient change only in a successful call of one of the four (after
\* deployment), and that call is the deployer's.
C12_AdminOnly ==
    [][/\ (registryVars' # registryVars
            \/ platformFeeBps' # platformFeeBps
            \/ platformFeeRecipient' # platformFeeRecipient)
           => \/ last'.op = "onDeployment"
              \/ last'.op \in AdminOps /\ last'.err = OK
       /\ last'.op \in AdminOps =>
            LET NoCallBy(callers) ==
                  \A sender \in callers :
                    /\ last'.op = "setPlatformFee" =>
                         \A newFeeBps \in NewFeeBpsInputs :
                           ~setPlatformFee(sender, newFeeBps)
                    /\ last'.op = "setPlatformFeeRecipient" =>
                         \A newRecipient \in NewFeeRecipients :
                           ~setPlatformFeeRecipient(sender, newRecipient)
                    /\ last'.op = "registerCollection" =>
                         \A collectionAddr \in RoyaltyCollections,
                            bps \in RoyaltyBpsInputs,
                            recipient \in RoyaltyRecipients :
                           ~registerCollection(sender, collectionAddr, bps,
                                               recipient)
                    /\ last'.op = "updateRoyalty" =>
                         \A collectionAddr \in RoyaltyCollections,
                            bps \in RoyaltyBpsInputs,
                            recipient \in RoyaltyRecipients :
                           ~updateRoyalty(sender, collectionAddr, bps,
                                          recipient)
            IN
            \* a step refused as Unauthorized is no call of the deployer's
            /\ last'.err \in Unauthorized => NoCallBy({ContractDeployer})
            \* any other step is no call of anyone else's
            /\ ~(last'.err \in Unauthorized /\ UNCHANGED <<storage, history>>)
                 => NoCallBy(Senders \ {ContractDeployer})
      ]_vars

\* C12 witness: the deployer changed the fee recipient, and the same call
\* by another account has just been refused.
C12_Witness ==
    /\ platformFeeRecipient = AddressOf(2)
    /\ last.op = "setPlatformFeeRecipient"
    /\ last.err = "Only deployer can call this method"

\* a verification call (ownerOf, isApprovedForAll) that failed or refused
VerificationFailed ==
    {"ownerOf call failed", "isApprovedForAll call failed",
     "Caller is not the token owner", "Marketplace not approved for transfers"}

\* C13: a call that fails with InvalidArgument, Unauthorized, NotFound,
\* Inactive, NotRegistered, a failed verification call or Overflow leaves
\* the listings, the bids, both counters, the registry, the platform
\* accounting and the event log as they were.
C13_FailedCallsChangeNothing ==
    [][last'.err \in (InvalidArgument \cup Unauthorized \cup NotFound
                        \cup Inactive \cup NotRegistered
                        \cup VerificationFailed \cup Overflow)
         => UNCHANGED storage
      ]_vars

\* C14: when the transfer call of buyNFT / acceptBid does not report
\* success the call fails with "NFT transfer failed" and emits no event, yet
\* the listing / bid, active when the call was made, is Inactive after it
\* and totalVolume stays higher by its price / amount, both written before
\* the transfer call; and no step makes an Inactive record Active again.
C14_FailedTransferKeepsWrites ==
    [][/\ \A id \in U256 :
            /\ (ListingExists(id) /\ listingActiveMap[id] = INACTIVE)
                 => listingActiveMap'[id] = INACTIVE
            /\ (BidExists(id) /\ bidActiveMap[id] = INACTIVE)
                 => bidActiveMap'[id] = INACTIVE
       /\ Begins("buyNFT", "safeTransferFrom") =>
            LET id == stack'[Len(stack')].id IN
            /\ listingActiveMap[id] = ACTIVE
            /\ listingActiveMap'[id] = INACTIVE
            /\ totalVolume' = totalVolume + listingPriceMap[id]
       /\ Begins("acceptBid", "ownerOf") =>
            bidActiveMap[stack'[Len(stack')].id] = ACTIVE
       /\ (Answers("acceptBid", "ownerOf") /\ last'.err = Pending) =>
            /\ bidActiveMap'[Top.id] = INACTIVE
            /\ totalVolume' = totalVolume + bidAmountMap[Top.id]
       /\ stack # <<>> =>
            \A transferResult \in TransferResults :
              ~transferResult.success =>
                /\ Gives(buyNFT_finish(transferResult),
                     /\ last'.op = "buyNFT"
                     /\ last'.err = "NFT transfer failed"
                     /\ listingActiveMap'[Top.id] = INACTIVE
                     /\ UNCHANGED storage)
                /\ Gives(acceptBid_finish(transferResult),
                     /\ last'.op = "acceptBid"
                     /\ last'.err = "NFT transfer failed"
                     /\ bidActiveMap'[Top.id] = INACTIVE
                     /\ UNCHANGED storage)
      ]_vars

\* C14 witness: the acceptBid of bid 1 failed in its transfer call; the bid
\* is Inactive, its amount is in totalVolume, no BidAccepted was emitted.
C14_Witness ==
    /\ last.op = "acceptBid"
    /\ last.err = "NFT transfer failed"
    /\ bidActiveMap[1] = INACTIVE
    /\ totalVolume = bidAmountMap[1]
    /\ totalVolume > 0
    /\ \A i \in 1..Len(events) : events[i].name # "BidAccepted"

\* C15: a buyNFT that issues its transfer call has by then made the listing
\* Inactive and added its price to totalVolume, so the listing is Inactive
\* while the call is pending and after it, whatever the transfer call
\* answers; the call is safeTransferFrom(recorded seller, caller, recorded
\* token) on the recorded collection; and ListingSold(id, buyer, price) is
\* appended exactly when the transfer call reported success, never by a
\* buyNFT that issued no transfer call.
C15_BuyOrder ==
    /\ [](\A i \in 1..Len(stack) :
            stack[i].op = "buyNFT" =>
              /\ listingActiveMap[stack[i].id] = INACTIVE
              /\ stack[i].amount = listingPriceMap[stack[i].id])
    /\ [][last'.op = "buyNFT" =>
          /\ \A buyer \in Senders, id \in U256 :
               Gives(buyNFT_settle(buyer, id),
                 /\ events' = events
                 /\ IF last'.calls = <<>>
                    THEN stack' = stack
                    ELSE /\ last'.calls =
                              <<[to |-> listingCollectionMap[id],
                                 selector |-> "safeTransferFrom",
                                 args |-> <<listingSellerMap[id],
                                            addressToU256(buyer),
                                            listingTokenIdMap[id]>>]>>
                         /\ Begins("buyNFT", "safeTransferFrom")
                         /\ listingActiveMap[id] = ACTIVE
                         /\ listingActiveMap'[id] = INACTIVE
                         /\ totalVolume' = totalVolume + listingPriceMap[id])
          /\ stack # <<>> =>
               \A transferResult \in TransferResults :
                 Gives(buyNFT_finish(transferResult),
                   /\ UNCHANGED <<listingVars, bidVars, platformVars>>
                   /\ IF transferResult.success
                      THEN /\ last'.err = OK
                           /\ events' = Append(events,
                                ListingSoldEvent(Top.id, Top.sender,
                                                 listingPriceMap[Top.id]))
                      ELSE /\ last'.err \notin {OK, Pending}
                           /\ events' = events)
         ]_vars

\* C15 witness: listing 1 was bought; the transfer call was answered and
\* ListingSold is the last event.
C15_Witness ==
    /\ last.op = "buyNFT"
    /\ last.err = OK
    /\ stack = <<>>
    /\ listingActiveMap[1] = INACTIVE
    /\ Len(events) > 0
    /\ events[Len(events)] =
         Event("ListingSold", <<1, addressToU256(AddressOf(2)), totalVolume>>)

\* C16: acceptBid goes on to its ownerOf call exactly when the bid exists
\* and is active, whether or not any listing exists; it goes on to its
\* transfer call only if that ownerOf call returned the caller and the
\* volume addition fits, and has then made the bid Inactive and added its
\* amount to totalVolume; it succeeds exactly when the transfer call
\* succeeded, and then appends BidAccepted(id, caller).  The calls are
\* ownerOf(token) and safeTransferFrom(caller, bidder, token) on the bid's
\* collection.  When ownerOf fails or returns someone else the call fails
\* and changes nothing.
C16_AcceptBid ==
    [][last'.op = "acceptBid" =>
       /\ \A sender \in Senders, id \in U256 :
            LET open == BidExists(id) /\ bidActiveMap[id] = ACTIVE IN
            Gives(acceptBid_read(sender, id),
              /\ last'.err = Pending <=> open
              /\ UNCHANGED <<storage, history>>
              /\ IF open
                 THEN /\ Begins("acceptBid", "ownerOf")
                      /\ last'.calls =
                           <<[to |-> bidCollectionMap[id],
                              selector |-> "ownerOf",
                              args |-> <<bidTokenIdMap[id]>>]>>
                 ELSE stack' = stack /\ last'.calls = <<>>)
       /\ stack # <<>> =>
            /\ \A ownerOfResult \in OwnerOfResults :
                 LET owns == /\ ownerOfResult.success
                             /\ ownerOfResult.data = Top.sender
                 IN
                 Gives(acceptBid_settle(ownerOfResult),
                   /\ last'.err = Pending <=>
                        owns /\ totalVolume + bidAmountMap[Top.id] <= U256Max
                   /\ last'.err = Pending =>
                        /\ bidActiveMap'[Top.id] = INACTIVE
                        /\ totalVolume' = totalVolume + bidAmountMap[Top.id]
                        /\ last'.calls =
                             <<[to |-> bidCollectionMap[Top.id],
                                selector |-> "safeTransferFrom",
                                args |-> <<addressToU256(Top.sender),
                                           bidBidderMap[Top.id],
                                           bidTokenIdMap[Top.id]>>]>>
                        /\ events' = events
                   /\ ~owns =>
                        /\ last'.err \in VerificationFailed
                        /\ stack' = Pop
                        /\ UNCHANGED <<storage, history>>)
            /\ \A transferResult \in TransferResults :
                 Gives(acceptBid_finish(transferResult),
                   /\ last'.err = OK <=> transferResult.success
                   /\ UNCHANGED <<listingVars, bidVars, platformVars>>
                   /\ bidActiveMap'[Top.id] = INACTIVE
                   /\ last'.err = OK =>
                        events' = Append(events,
                                         BidAcceptedEvent(Top.id, Top.sender)))
      ]_vars

\* C16 witness: bid 1 was accepted although no listing was ever created.
C16_Witness ==
    /\ nextListingId = FirstId
    /\ totalListings = 0
    /\ last.op = "acceptBid"
    /\ last.err = OK
    /\ bidActiveMap[1] = INACTIVE
    /\ events[Len(events)].name = "BidAccepted"

\* C17: placeBid issues no remote call and looks at no listing; by any
\* caller, for any non-null collection and any amount > 0, it succeeds.
C17_PlaceBidAlwaysSucceeds ==
    [][last'.op = "placeBid" =>
       \A sender \in Senders, collectionAddr \in Collections,
          tokenId \in TokenIds, amount \in BidAmounts :
         Gives(placeBid(sender, collectionAddr, tokenId, amount),
           /\ last'.calls = <<>>
           /\ UNCHANGED listingVars
           /\ (~isZero(collectionAddr) /\ amount > 0) => last'.err = OK)
      ]_vars

\* C17, amended: placeBid issues no remote call and leaves the listing
\* ledger alone.  By any caller, for any non-null collection and any amount
\* > 0, whatever listings exist, it succeeds exactly when the bid counter is
\* short of the greatest word: it then returns the counter, records under
\* that id the collection, the token, the caller as bidder, the amount and
\* the flag Active, and appends BidPlaced.  At the greatest word it fails
\* with the overflow of SafeMath.add and writes nothing.
C17_PlaceBidUnchecked ==
    [][last'.op = "placeBid" =>
       \A sender \in Senders, collectionAddr \in Collections,
          tokenId \in TokenIds, amount \in BidAmounts :
         Gives(placeBid(sender, collectionAddr, tokenId, amount),
           /\ last'.calls = <<>>
           /\ UNCHANGED listingVars
           /\ (~isZero(collectionAddr) /\ amount > 0 /\ nextBidId = U256Max)
                => /\ last'.err = OverflowMsg
                   /\ UNCHANGED <<storage, history>>
           /\ (~isZero(collectionAddr) /\ amount > 0 /\ nextBidId < U256Max)
                => /\ last'.err = OK
                   /\ last'.ret = nextBidId
                   /\ nextBidId' = nextBidId + 1
                   /\ bidCollectionMap'[nextBidId] = addressToU256(collectionAddr)
                   /\ bidTokenIdMap'[nextBidId] = tokenId
                   /\ bidBidderMap'[nextBidId] = addressToU256(sender)
                   /\ bidAmountMap'[nextBidId] = amount
                   /\ bidActiveMap'[nextBidId] = ACTIVE
                   /\ events' = Append(events,
                         Event("BidPlaced",
                               <<nextBidId, addressToU256(collectionAddr),
                                 tokenId, addressToU256(sender), amount>>)))
      ]_vars

\* C17 witness: a bid was placed before the token was listed and another
\* one, on the same token, while its listing was active.
C17_Witness ==
    /\ Len(events) = 3
    /\ events[1].name = "BidPlaced"
    /\ events[2].name = "ListingCreated"
    /\ events[3].name = "BidPlaced"
    /\ listingActiveMap[1] = ACTIVE
    /\ bidTokenIdMap[1] = listingTokenIdMap[1]
    /\ bidTokenIdMap[2] = listingTokenIdMap[1]
    /\ bidActiveMap[1] = ACTIVE /\ bidActiveMap[2] = ACTIVE

\* the registry entry of a collection: registered, royaltyBps, recipient
CollectionInfo(c) ==
    <<collectionRegisteredMap[c], collectionRoyaltyBpsMap[c],
      collectionRoyaltyRecipientMap[addressToU256(c)]>>

\* C18: a successful registerCollection(C, bps, r) leaves C's entry at
\* (registered, bps, r) whatever it was before and every other collection's
\* entry as it was; made in a state where C's entry is already
\* (registered, bps, r) it leaves the registry unchanged; and
\* getCollectionInfo(C) returns C's entry, so when it follows a successful
\* registerCollection(C, bps, r) it returns registered = 1 and bps.
C18_RegisterUpsert ==
    [][/\ (last'.op = "registerCollection" /\ last'.err = OK) =>
            \A sender \in Senders, collectionAddr \in RoyaltyCollections,
               bps \in RoyaltyBpsInputs, recipient \in RoyaltyRecipients :
              Gives(registerCollection(sender, collectionAddr, bps, recipient),
                LET entry == <<1, bps, addressToU256(recipient)>> IN
                /\ CollectionInfo(collectionAddr)' = entry
                /\ \A c \in Address \ {collectionAddr} :
                     CollectionInfo(c)' = CollectionInfo(c)
                /\ CollectionInfo(collectionAddr) = entry
                     => UNCHANGED registryVars)
       /\ last'.op = "getCollectionInfo" =>
            \A collectionAddr \in RoyaltyCollections :
              Gives(getCollectionInfo(collectionAddr),
                /\ last'.ret = CollectionInfo(collectionAddr)
                /\ (/\ last.op = "registerCollection"
                    /\ last.err = OK
                    /\ events[Len(events)].data[1]
                         = addressToU256(collectionAddr))
                     => /\ last'.ret[1] = 1
                        /\ last'.ret[2] = events[Len(events)].data[2]
                        /\ last'.ret[3] # 0)
      ]_vars

\* C18 witness: the collection was registered at 250 and registered again
\* at 1000, and getCollectionInfo has returned the second terms.
C18_Witness ==
    /\ Len(events) = 2
    /\ events[1] = Event("CollectionRegistered", <<U256Max, 250>>)
    /\ events[2] = Event("CollectionRegistered", <<U256Max, MAX_ROYALTY_BPS>>)
    /\ last.op = "getCollectionInfo"
    /\ last.ret = <<1, MAX_ROYALTY_BPS, 1>>

\* C19: updateRoyalty(C, bps, r) by the deployer fails with NotRegistered
\* and changes nothing when C is not registered; for a registered C it
\* succeeds exactly when bps <= MAX_ROYALTY_BPS and r is not the null
\* address, and fails with InvalidArgument, changing nothing, otherwise; no
\* updateRoyalty changes a registered flag; a successful one sets C's
\* royaltyBps and recipient and changes nothing else.
C19_UpdateRoyalty ==
    [][last'.op = "updateRoyalty" =>
       \A sender \in Senders, collectionAddr \in RoyaltyCollections,
          bps \in RoyaltyBpsInputs, recipient \in RoyaltyRecipients :
         Gives(updateRoyalty(sender, collectionAddr, bps, recipient),
           /\ collectionRegisteredMap' = collectionRegisteredMap
           /\ sender = ContractDeployer =>
                IF collectionRegisteredMap[collectionAddr] = 0
                THEN /\ last'.err \in NotRegistered
                     /\ UNCHANGED <<storage, history>>
                ELSE /\ last'.err = OK <=>
                          bps <= MAX_ROYALTY_BPS /\ ~isZero(recipient)
                     /\ last'.err # OK =>
                          /\ last'.err \in InvalidArgument
                          /\ UNCHANGED <<storage, history>>
           /\ last'.err = OK =>
                /\ CollectionInfo(collectionAddr)'
                     = <<1, bps, addressToU256(recipient)>>
                /\ \A c \in Address \ {collectionAddr} :
                     CollectionInfo(c)' = CollectionInfo(c)
                /\ UNCHANGED <<deployed, listingVars, bidVars, platformVars,
                               events, history>>)
      ]_vars

\* C19 witness: the collection registered at 250 was updated to the largest
\* royalty, and the other collection is still unregistered.
C19_Witness ==
    /\ last.op = "updateRoyalty"
    /\ last.err = OK
    /\ events = <<Event("CollectionRegistered", <<U256Max, 250>>)>>
    /\ CollectionInfo(AddressOf(U256Max)) = <<1, MAX_ROYALTY_BPS, 1>>
    /\ CollectionInfo(AddressOf(1)) = <<0, 0, 0>>

\* C20 (as claimed): getListing called with id 0 or with an id >=
\* nextListingId fails with NotFound.
C20_GetListingNotFound ==
    [][last'.op = "getListing" =>
       \A id \in U256 :
         (id = 0 \/ id >= nextListingId)
           => Gives(getListing(id), last'.err \in NotFound)
      ]_vars

\* C20 (amended): getListing called with id 0 or with an id >=
\* nextListingId does not fail: it returns five zero words (the active
\* flag among them) and changes nothing.
C20_GetListingOutOfRange ==
    [][last'.op = "getListing" =>
       \A id \in U256 :
         (id = 0 \/ id >= nextListingId)
           => Gives(getListing(id),
                /\ last'.err = OK
                /\ last'.ret = <<0, 0, 0, 0, 0>>
                /\ UNCHANGED <<storage, history>>)
      ]_vars

\* C20 witness: listing 1 exists and a getListing of another id has
\* returned five zero words.
C20_Witness ==
    /\ nextListingId = 2
    /\ listingPriceMap[1] > 0
    /\ last.op = "getListing"
    /\ last.err = OK
    /\ last.ret = <<0, 0, 0, 0, 0>>

\* C21: getListing, getBid, getCollectionInfo and getPlatformInfo, for any
\* argument and in any state, return normally, change nothing stored, emit
\* no event and issue no remote call; they return the stored words of the
\* record asked for, so a record that exists and is not active is returned
\* with its four terms and the flag 0.
C21_GettersPure ==
    [][last'.op \in Views =>
       /\ last'.err = OK
       /\ last'.calls = <<>>
       /\ UNCHANGED <<storage, history>>
       /\ last'.op = "getListing" =>
            \A id \in U256 :
              Gives(getListing(id),
                /\ last'.ret = <<listingCollectionMap[id], listingTokenIdMap[id],
                                 listingSellerMap[id], listingPriceMap[id],
                                 listingActiveMap[id]>>
                /\ (ListingExists(id) /\ listingActiveMap[id] = INACTIVE)
                     => /\ last'.ret[5] = INACTIVE
                        /\ last'.ret[1] # 0
                        /\ last'.ret[4] > 0)
       /\ last'.op = "getBid" =>
            \A id \in U256 :
              Gives(getBid(id),
                /\ last'.ret = <<bidCollectionMap[id], bidTokenIdMap[id],
                                 bidBidderMap[id], bidAmountMap[id],
                                 bidActiveMap[id]>>
                /\ (BidExists(id) /\ bidActiveMap[id] = INACTIVE)
                     => /\ last'.ret[5] = INACTIVE
                        /\ last'.ret[1] # 0
                        /\ last'.ret[4] > 0)
       /\ last'.op = "getCollectionInfo" =>
            \A collectionAddr \in RoyaltyCollections :
              Gives(getCollectionInfo(collectionAddr),
                    last'.ret = CollectionInfo(collectionAddr))
       /\ last'.op = "getPlatformInfo" =>
            last'.ret = <<platformFeeBps, platformFeeRecipient, totalVolume,
                          totalListings>>
      ]_vars

\* C21 witness: bid 1 was placed and cancelled, and getBid(1) has returned
\* its terms with the flag 0.
C21_Witness ==
    /\ last.op = "getBid"
    /\ nextBidId = 2
    /\ bidActiveMap[1] = INACTIVE
    /\ last.ret = <<bidCollectionMap[1], bidTokenIdMap[1], bidBidderMap[1],
                    bidAmountMap[1], INACTIVE>>
    /\ last.ret[4] > 0
    /\ Len(events) = 2

\* C22: no step, of a call that succeeds or of one that fails, changes the
\* collection, tokenId, seller or price of an existing listing, or the
\* collection, tokenId, bidder or amount of an existing bid; and no step
\* takes an id out of existence.
C22_TermsFixed ==
    [][\A id \in U256 :
         /\ ListingExists(id) =>
              /\ ListingExists(id)'
              /\ listingCollectionMap'[id] = listingCollectionMap[id]
              /\ listingTokenIdMap'[id] = listingTokenIdMap[id]
              /\ listingSellerMap'[id] = listingSellerMap[id]
              /\ listingPriceMap'[id] = listingPriceMap[id]
         /\ BidExists(id) =>
              /\ BidExists(id)'
              /\ bidCollectionMap'[id] = bidCollectionMap[id]
              /\ bidTokenIdMap'[id] = bidTokenIdMap[id]
              /\ bidBidderMap'[id] = bidBidderMap[id]
              /\ bidAmountMap'[id] = bidAmountMap[id]
      ]_vars

\* C22 witness: bid 1 was placed, a second bid was placed and bid 1 was
\* cancelled; bid 1 still has the terms its BidPlaced event carries and
\* only its flag has changed.
C22_Witness ==
    /\ Len(events) = 3
    /\ events[1].name = "BidPlaced"
    /\ events[2].name = "BidPlaced"
    /\ events[3] = BidCancelledEvent(1)
    /\ <<1, bidCollectionMap[1], bidTokenIdMap[1], bidBidderMap[1],
         bidAmountMap[1]>> = events[1].data
    /\ bidAmountMap[1] > 0
    /\ bidActiveMap[1] = INACTIVE

\* the five words getListing returns for id in the state reached
ListingAfter(id) ==
    <<listingCollectionMap'[id], listingTokenIdMap'[id], listingSellerMap'[id],
      listingPriceMap'[id], listingActiveMap'[id]>>

\* C23: a successful listNFT(C, t, p) by s returns an id under which
\* (C, t, s, p, Active) is then stored, the id being 1 when it is the first
\* listing after deployment, and a getListing(id) that follows it returns
\* exactly that; a getListing(id) that follows a successful
\* cancelListing(id) returns the four terms the listing was created with
\* and the flag 0.  The pending listNFT keeps C, t, s and p from its entry
\* to the step that stores them.
C23_ListThenGet ==
    [][/\ last'.op = "listNFT" =>
            /\ \A sender \in Senders, collectionAddr \in Collections,
                  tokenId \in TokenIds, price \in Prices :
                 Gives(listNFT_validate(sender, collectionAddr, tokenId,
                                        price),
                   last'.err = Pending =>
                     stack' = Append(stack,
                       Frame("listNFT", "ownerOf", sender, 0, collectionAddr,
                             tokenId, ZeroAddress, price)))
            /\ (Answers("listNFT", "ownerOf") /\ last'.err = Pending) =>
                 stack' = Append(Pop, [Top EXCEPT !.pc = "isApprovedForAll"])
            /\ last'.err = OK =>
                 /\ Answers("listNFT", "isApprovedForAll")
                 /\ ListingAfter(last'.ret) =
                      <<addressToU256(Top.collectionAddr), Top.tokenId,
                        addressToU256(Top.sender), Top.amount, ACTIVE>>
                 /\ returnedListingIds = <<>> => last'.ret = 1
       /\ last'.op = "getListing" =>
            \A id \in U256 :
              Gives(getListing(id),
                /\ (last.op = "listNFT" /\ last.err = OK /\ id = last.ret)
                     => LET created == events[Len(events)].data IN
                        last'.ret = <<created[2], created[3], created[4],
                                      created[5], ACTIVE>>
                /\ (/\ last.op = "cancelListing"
                    /\ last.err = OK
                    /\ events[Len(events)] = ListingCancelledEvent(id))
                     => \E i \in 1..Len(events) :
                          /\ events[i].name = "ListingCreated"
                          /\ events[i].data[1] = id
                          /\ last'.ret = <<events[i].data[2], events[i].data[3],
                                           events[i].data[4], events[i].data[5],
                                           INACTIVE>>)
      ]_vars

\* C23 witness: the first listing, of token 1 at the greatest price, was
\* created with id 1 and cancelled by its seller, and getListing(1) has
\* returned its terms with the flag 0.
C23_Witness ==
    /\ events = <<ListingCreatedEvent(1, AddressOf(U256Max), 1, AddressOf(2),
                                      U256Max),
                  ListingCancelledEvent(1)>>
    /\ last.op = "getListing"
    /\ last.ret = <<U256Max, 1, 2, U256Max, INACTIVE>>

\* the operations that emit an event when they succeed
EmittingOps ==
    {"listNFT", "cancelListing", "buyNFT", "placeBid", "cancelBid",
     "acceptBid", "registerCollection"}
\* the operations that change a setting and emit nothing
SettingsOps == {"setPlatformFee", "setPlatformFeeRecipient", "updateRoyalty"}

\* every step keeps the events logged so far and appends at most one
AppendOnly ==
    /\ Len(events') \in {Len(events), Len(events) + 1}
    /\ SubSeq(events', 1, Len(events)) = events

\* C24 (as claimed): the log is append-only; every successful call of one
\* of the ten mutating operations appends exactly one event; failed calls
\* and read operations append none.
C24_OneEventPerMutatingCall ==
    [][/\ AppendOnly
       /\ (last'.op \in EmittingOps \cup SettingsOps /\ last'.err = OK)
            => Len(events') = Len(events) + 1
       /\ (last'.err # OK \/ last'.op \in Views) => events' = events
      ]_vars

\* C24 (amended): the log is append-only; every successful listNFT,
\* cancelListing, buyNFT, placeBid, cancelBid, acceptBid and
\* registerCollection appends exactly one event, of its own kind; a
\* successful setPlatformFee, setPlatformFeeRecipient or updateRoyalty
\* appends none, and neither do failed calls, read operations and
\* deployment.
C24_OneEventPerLedgerCall ==
    [][/\ AppendOnly
       /\ (last'.op \in EmittingOps /\ last'.err = OK)
            => /\ Len(events') = Len(events) + 1
               /\ events'[Len(events')].name =
                    CASE last'.op = "listNFT" -> "ListingCreated"
                      [] last'.op = "cancelListing" -> "ListingCancelled"
                      [] last'.op = "buyNFT" -> "ListingSold"
                      [] last'.op = "placeBid" -> "BidPlaced"
                      [] last'.op = "cancelBid" -> "BidCancelled"
                      [] last'.op = "acceptBid" -> "BidAccepted"
                      [] last'.op = "registerCollection"
                           -> "CollectionRegistered"
       /\ (\/ last'.err # OK
           \/ last'.op \in SettingsOps \cup Views \cup {"onDeployment"})
            => events' = events
      ]_vars

\* C24 witness: a listing was created and the deployer has then changed the
\* platform fee; the log still holds the one ListingCreated event.
C24_Witness ==
    /\ last.op = "setPlatformFee"
    /\ last.err = OK
    /\ platformFeeBps = 0
    /\ Len(events) = 1
    /\ events[1].name = "ListingCreated"

\* C25: totalVolume, nextListingId, nextBidId and totalListings are at most
\* 2^w - 1 in every state and no step lowers one of them; a buyNFT /
\* acceptBid that has passed its checks and whose price / amount does not
\* fit on top of totalVolume fails with Overflow, leaving totalVolume as it
\* was, with no transfer call and no event; a listNFT / placeBid that has
\* passed its checks while the counter is 2^w - 1 fails with Overflow and
\* changes nothing; a successful listNFT raises nextListingId and
\* totalListings by exactly one, a successful placeBid nextBidId.
C25_NoWrap ==
    /\ [](/\ totalVolume \in U256
          /\ nextListingId \in U256
          /\ nextBidId \in U256
          /\ totalListings \in U256)
    /\ [][/\ totalVolume' >= totalVolume
          /\ nextListingId' >= nextListingId
          /\ nextBidId' >= nextBidId
          /\ totalListings' >= totalListings
          /\ last'.op = "buyNFT" =>
               \A buyer \in Senders, id \in U256 :
                 (/\ buyNFTCheck(buyer, id) = OK
                  /\ totalVolume + listingPriceMap[id] > U256Max)
                   => Gives(buyNFT_settle(buyer, id),
                        /\ last'.err \in Overflow
                        /\ totalVolume' = totalVolume
                        /\ last'.calls = <<>>
                        /\ stack' = stack
                        /\ events' = events)
          /\ (last'.op = "acceptBid" /\ stack # <<>>) =>
               \A ownerOfResult \in OwnerOfResults :
                 (/\ verifyOwnership(ownerOfResult, Top.sender) = OK
                  /\ totalVolume + bidAmountMap[Top.id] > U256Max)
                   => Gives(acceptBid_settle(ownerOfResult),
                        /\ last'.err \in Overflow
                        /\ totalVolume' = totalVolume
                        /\ last'.calls = <<>>
                        /\ stack' = Pop
                        /\ events' = events)
          /\ last'.op = "listNFT" =>
               /\ last'.err = OK =>
                    /\ nextListingId' = nextListingId + 1
                    /\ totalListings' = totalListings + 1
               /\ (nextListingId = U256Max /\ stack # <<>>) =>
                    \A approvalResult \in ApprovalResults :
                      verifyApproval(approvalResult) = OK
                        => Gives(listNFT_record(approvalResult),
                                 last'.err \in Overflow /\ Refused)
          /\ last'.op = "placeBid" =>
               /\ last'.err = OK => nextBidId' = nextBidId + 1
               /\ nextBidId = U256Max =>
                    \A sender \in Senders, collectionAddr \in Collections,
                       tokenId \in TokenIds, amount \in BidAmounts :
                      (~isZero(collectionAddr) /\ amount > 0)
                        => Gives(placeBid(sender, collectionAddr, tokenId,
                                          amount),
                                 last'.err \in Overflow /\ Refused)
         ]_vars

\* C25 witness: an acceptBid whose amount did not fit on top of
\* totalVolume has failed with Overflow; totalVolume is what it was.
C25_Witness ==
    /\ last.op = "acceptBid"
    /\ last.err = OverflowMsg
    /\ stack = <<>>
    /\ totalVolume = unsettledVolume + settledVolume
    /\ \E id \in U256 :
         /\ BidExists(id)
         /\ totalVolume + bidAmountMap[id] > U256Max

\* the operations on each ledger
ListingOps == {"listNFT", "cancelListing", "buyNFT"}
BidOps == {"placeBid", "cancelBid", "acceptBid"}

\* C26: no placeBid, cancelBid or acceptBid, successful or failed, changes
\* nextListingId, totalListings or any listing field or flag; no listNFT,
\* cancelListing or buyNFT changes nextBidId or any bid field or flag.
C26_LedgersIndependent ==
    [][/\ last'.op \in BidOps => UNCHANGED <<listingVars, totalListings>>
       /\ last'.op \in ListingOps => UNCHANGED bidVars
      ]_vars

\* C26 witness: id 1 denotes a listing and a bid of different terms; the
\* bid has been cancelled and the listing is still active.
C26_Witness ==
    /\ ListingExists(1) /\ BidExists(1)
    /\ listingSellerMap[1] # bidBidderMap[1]
    /\ listingPriceMap[1] # bidAmountMap[1]
    /\ last.op = "cancelBid"
    /\ last.err = OK
    /\ bidActiveMap[1] = INACTIVE
    /\ listingActiveMap[1] = ACTIVE

\* the call has failed before any remote call, nothing changed
RefusedAtOnce ==
    /\ last'.err \notin {OK, Pending}
    /\ last'.calls = <<>>
    /\ UNCHANGED <<storage, history, stack>>

\* the errors a listing id / bid id that is not that of an active record
\* is answered with: NotFound out of range, Inactive in range
ListingIdRefused(id) ==
    last'.err \in (IF ListingExists(id) THEN Inactive ELSE NotFound)
BidIdRefused(id) ==
    last'.err \in (IF BidExists(id) THEN Inactive ELSE NotFound)

\* the ids that are not those of an active listing / bid
DeadListingIds ==
    {id \in U256 : ~(ListingExists(id) /\ listingActiveMap[id] = ACTIVE)}
DeadBidIds ==
    {id \in U256 : ~(BidExists(id) /\ bidActiveMap[id] = ACTIVE)}

\* C27: cancelListing and buyNFT given an id that is 0 or >= nextListingId
\* fail with NotFound, and given the id of an existing listing that is not
\* active fail with Inactive, whoever the caller is and before any remote
\* call; cancelBid and acceptBid do the same on bid ids, before ownerOf is
\* asked.  (A step is a call on such an id only if it is a failure that
\* changed nothing, with the error of the id's class.)
C27_IdClassifiedFirst ==
    [][/\ last'.op = "cancelListing" =>
            \A id \in DeadListingIds :
              (~RefusedAtOnce \/ ~ListingIdRefused(id)) =>
                \A sender \in Senders : ~cancelListing(sender, id)
       /\ last'.op = "buyNFT" =>
            \A id \in DeadListingIds :
              (~RefusedAtOnce \/ ~ListingIdRefused(id)) =>
                \A buyer \in Senders : ~buyNFT_settle(buyer, id)
       /\ last'.op = "cancelBid" =>
            \A id \in DeadBidIds :
              (~RefusedAtOnce \/ ~BidIdRefused(id)) =>
                \A sender \in Senders : ~cancelBid(sender, id)
       /\ last'.op = "acceptBid" =>
            \A id \in DeadBidIds :
              (~RefusedAtOnce \/ ~BidIdRefused(id)) =>
                \A sender \in Senders : ~acceptBid_read(sender, id)
      ]_vars

\* C27 witness: listing 1, of seller 2, was sold, and a cancelListing has
\* then failed with Inactive whoever called it.
C27_Witness ==
    /\ last.op = "cancelListing"
    /\ last.err \in Inactive
    /\ last.calls = <<>>
    /\ nextListingId = 2
    /\ listingSellerMap[1] = 2
    /\ listingActiveMap[1] = INACTIVE
    /\ events[Len(events)].name = "ListingSold"

\* the names of the logged events of the given kinds that carry the id
NamesOf(kinds, id) ==
    LET about == SelectSeq(events,
                           LAMBDA e : e.name \in kinds /\ e.data[1] = id)
    IN [i \in 1..Len(about) |-> about[i].name]

ListingEventNames(id) ==
    NamesOf({"ListingCreated", "ListingCancelled", "ListingSold"}, id)
BidEventNames(id) ==
    NamesOf({"BidPlaced", "BidCancelled", "BidAccepted"}, id)

\* C35: calls running one after the other (no call made while another is
\* pending), the events of the log that carry one listing id are none, or
\* ListingCreated alone, or ListingCreated followed by one ListingCancelled
\* or one ListingSold; and those of one bid id none, or BidPlaced alone, or
\* BidPlaced followed by one BidCancelled or one BidAccepted.
C35_EventOrderPerId ==
    \A id \in U256 :
      /\ ListingEventNames(id) \in
           {<<>>, <<"ListingCreated">>,
            <<"ListingCreated", "ListingCancelled">>,
            <<"ListingCreated", "ListingSold">>}
      /\ BidEventNames(id) \in
           {<<>>, <<"BidPlaced">>,
            <<"BidPlaced", "BidCancelled">>,
            <<"BidPlaced", "BidAccepted">>}

\* C35 witness: bid 1 was placed and accepted, and a further acceptBid of it
\* has failed
C35_Witness ==
    /\ BidEventNames(1) = <<"BidPlaced", "BidAccepted">>
    /\ last.op = "acceptBid"
    /\ last.err \in Inactive

\* a call of the operation is pending on the remote call, about the id
PendingOn(op, pc, id) ==
    \E i \in 1..Len(stack) :
      stack[i].op = op /\ stack[i].pc = pc /\ stack[i].id = id

\* C32: also when the collection contract calls the marketplace back while a
\* remote call of acceptBid is pending, a bid is settled at most once: the
\* log holds at most one BidAccepted with its id and none after a
\* BidCancelled with its id, and an acceptBid adds the amount to totalVolume
\* only for a bid that is active until then.
C32_BidSettledOnce ==
    /\ [](\A id \in U256 :
            BidEventNames(id) \in
              {<<>>, <<"BidPlaced">>,
               <<"BidPlaced", "BidCancelled">>,
               <<"BidPlaced", "BidAccepted">>})
    /\ [][(last'.op = "acceptBid" /\ totalVolume' # totalVolume)
            => bidActiveMap[Top.id] = ACTIVE]_vars

\* C33: also when the collection contract calls the marketplace back while
\* the transfer call of buyNFT is pending, a listing is sold at most once: a
\* buyNFT or cancelListing of the listing made meanwhile fails with Inactive;
\* a buyNFT raises totalVolume only by the price of a listing that is active
\* until then and inactive from then on; and the log holds at most one
\* ListingSold or ListingCancelled with the id of a listing.
C33_ListingSoldOnce ==
    /\ [](\A id \in U256 :
            ListingEventNames(id) \in
              {<<>>, <<"ListingCreated">>,
               <<"ListingCreated", "ListingCancelled">>,
               <<"ListingCreated", "ListingSold">>})
    /\ [][/\ \A id \in U256 :
               PendingOn("buyNFT", "safeTransferFrom", id) =>
                 /\ listingActiveMap'[id] = INACTIVE
                 /\ \A sender \in Senders :
                      /\ Gives(buyNFT_settle(sender, id),
                               last'.err \in Inactive)
                      /\ Gives(cancelListing(sender, id),
                               last'.err \in Inactive)
          /\ (last'.op = "buyNFT" /\ totalVolume' # totalVolume) =>
               LET id == stack'[Len(stack')].id IN
               /\ listingActiveMap[id] = ACTIVE
               /\ listingActiveMap'[id] = INACTIVE
               /\ totalVolume' = totalVolume + listingPriceMap[id]
         ]_vars

\* listing 1 is the only record; a buyNFT of it waits for the transfer, and
\* a buyNFT made meanwhile has failed with Inactive
C33_Witness ==
    /\ PendingOn("buyNFT", "safeTransferFrom", 1)
    /\ Len(events) = 1 /\ nextBidId = FirstId
    /\ last.op = "buyNFT"
    /\ last.err \in Inactive

\* what is stored of the listing
ListingTerms(id) ==
    <<listingCollectionMap[id], listingTokenIdMap[id], listingSellerMap[id],
      listingPriceMap[id]>>

\* C34: also when the collection contract calls listNFT back while the
\* ownerOf or isApprovedForAll call of a listNFT is pending, listing ids are
\* unique and dense: the ids returned are 1, 2, ... in the order the calls
\* end, totalListings is their number, a successful listNFT writes the terms
\* of a listing that did not exist and of no other, and the terms of an
\* existing listing never change.
C34_ListingIdsUniqueAndDense ==
    /\ [](deployed =>
            /\ \A i \in 1..Len(returnedListingIds) :
                 returnedListingIds[i] = i
            /\ totalListings = Len(returnedListingIds)
            /\ nextListingId = Len(returnedListingIds) + 1)
    /\ [][/\ \A id \in U256 :
               ListingExists(id) => ListingTerms(id)' = ListingTerms(id)
          /\ (last'.op = "listNFT" /\ last'.err = OK) =>
               /\ ~ListingExists(last'.ret)
               /\ last'.ret >= 1 /\ last'.ret < nextListingId'
               /\ \A id \in U256 \ {last'.ret} :
                    ListingTerms(id)' = ListingTerms(id)
         ]_vars

\* a listNFT waits for the answer of isApprovedForAll, and a listNFT made
\* meanwhile has ended with id 1
C34_Witness ==
    /\ Len(stack) = 1
    /\ Top.op = "listNFT" /\ Top.pc = "isApprovedForAll"
    /\ last.op = "listNFT" /\ last.err = OK /\ last.ret = 1
    /\ returnedListingIds = <<1>>

\* the selectors of the remote calls the step has issued
Issued == {last'.calls[i].selector : i \in 1..Len(last'.calls)}

\* C36: within one call of listNFT the arguments are validated before any
\* remote call is made; the ownerOf call comes first and the isApprovedForAll
\* call is made only when the answer of ownerOf names the caller; and the id
\* is allocated and the ledger written only after both answers passed.
C36_ListNFTOrder ==
    [][last'.op = "listNFT" =>
         \* the call begins: nothing but ownerOf is issued, with valid
         \* arguments only, and nothing is written
         /\ (Len(stack') > Len(stack) \/ stack' = stack) =>
              /\ UNCHANGED storage
              /\ IF stack' = stack
                 THEN /\ last'.err \in {"Invalid collection address",
                                        "Price must be greater than zero"}
                      /\ Issued = {}
                 ELSE LET new == stack'[Len(stack')] IN
                      /\ Len(stack') = Len(stack) + 1
                      /\ new.pc = "ownerOf"
                      /\ ~isZero(new.collectionAddr) /\ new.amount > 0
                      /\ last'.err = Pending
                      /\ last'.calls =
                           <<ownerOfCall(new.collectionAddr, new.tokenId)>>
         \* ownerOf is answered: isApprovedForAll is issued when the answer
         \* passes, nothing is issued when it does not; nothing is written
         /\ (stack # <<>> /\ Len(stack') = Len(stack) /\ stack' # stack) =>
              /\ Top.op = "listNFT" /\ Top.pc = "ownerOf"
              /\ stack' = Append(Pop, [Top EXCEPT !.pc = "isApprovedForAll"])
              /\ last'.err = Pending
              /\ last'.calls =
                   <<isApprovedForAllCall(Top.collectionAddr, Top.sender)>>
              /\ UNCHANGED storage
         /\ (stack # <<>> /\ Len(stack') < Len(stack)) =>
              /\ Top.op = "listNFT" /\ stack' = Pop /\ Issued = {}
              /\ Top.pc = "ownerOf" =>
                   /\ last'.err \in {"ownerOf call failed",
                                     "Caller is not the token owner"}
                   /\ UNCHANGED storage
              /\ Top.pc = "isApprovedForAll" =>
                   \/ last'.err \in {"isApprovedForAll call failed",
                                     "Marketplace not approved for transfers"}
                        /\ UNCHANGED storage
                   \/ last'.err \in {OK, OverflowMsg}
         /\ (storage' # storage) =>
              /\ stack # <<>>
              /\ Top.op = "listNFT" /\ Top.pc = "isApprovedForAll"
              /\ last'.err \notin VerificationFailed
      ]_vars

\* a listNFT has had the answer of ownerOf and waits for the answer of
\* isApprovedForAll: no id is allocated and nothing is logged
C36_Witness ==
    /\ Len(stack) = 1
    /\ Top.op = "listNFT" /\ Top.pc = "isApprovedForAll"
    /\ last.op = "listNFT" /\ last.err = Pending
    /\ last.calls[1].selector = "isApprovedForAll"
    /\ nextListingId = FirstId /\ events = <<>>

\* what is stored of the bid
BidTerms(id) ==
    <<bidCollectionMap[id], bidTokenIdMap[id], bidBidderMap[id],
      bidAmountMap[id]>>

\* C37: once the contract is deployed, totalListings = nextListingId - 1,
\* and every id outside 1..nextListingId - 1 (for bids, 1..nextBidId - 1)
\* has all its stored fields zero and its flag Inactive.
C37_NothingOutsideIdRange ==
    deployed =>
      /\ totalListings = nextListingId - 1
      /\ \A id \in U256 :
           /\ ~ListingExists(id) =>
                /\ ListingTerms(id) = <<0, 0, 0, 0>>
                /\ listingActiveMap[id] = INACTIVE
           /\ ~BidExists(id) =>
                /\ BidTerms(id) = <<0, 0, 0, 0>>
                /\ bidActiveMap[id] = INACTIVE

\* a listing was created, a bid placed and the listing cancelled: the
\* listing still counts
C37_Witness ==
    /\ last.op = "cancelListing" /\ last.err = OK
    /\ totalListings = 1 /\ nextListingId = 2 /\ nextBidId = 2
    /\ listingActiveMap[1] = INACTIVE
    /\ bidActiveMap[1] = ACTIVE

\* the ids of the active listings of the token, given the three maps
ActiveIn(collections, tokenIds, flags, collection, tokenId) ==
    {id \in U256 : /\ collections[id] = collection
                   /\ tokenIds[id] = tokenId
                   /\ flags[id] = ACTIVE}
ActiveListingsOf(collection, tokenId) ==
    ActiveIn(listingCollectionMap, listingTokenIdMap, listingActiveMap,
             collection, tokenId)

\* C38: a token (collection, tokenId) has at most one active listing.
C38_OneActiveListingPerToken ==
    \A collection \in U256, tokenId \in TokenIds :
      Cardinality(ActiveListingsOf(collection, tokenId)) <= 1

\* C38, amended: listNFT does not look at the listings a token has.  It
\* goes on to its remote calls exactly when the arguments are valid, and
\* succeeds exactly when both answers pass and the id counter is short of
\* the greatest word; it then adds one active listing, with a new id, to
\* those the token has.
C38_ListNFTAddsListing ==
    [][last'.op = "listNFT" =>
         /\ \A sender \in Senders, collectionAddr \in Collections,
               tokenId \in TokenIds, price \in Prices :
              Gives(listNFT_validate(sender, collectionAddr, tokenId, price),
                last'.err = Pending <=> ~isZero(collectionAddr) /\ price > 0)
         /\ stack # <<>> =>
              LET collection == addressToU256(Top.collectionAddr) IN
              /\ \A ownerOfResult \in OwnerOfResults :
                   Gives(listNFT_verifyOwnership(ownerOfResult),
                     last'.err = Pending <=>
                       /\ ownerOfResult.success
                       /\ ownerOfResult.data = Top.sender)
              /\ \A approvalResult \in ApprovalResults :
                   Gives(listNFT_record(approvalResult),
                     /\ last'.err = OK <=>
                          /\ approvalResult.success /\ approvalResult.data
                          /\ nextListingId < U256Max
                     /\ last'.err = OK =>
                          /\ last'.ret \notin
                               ActiveListingsOf(collection, Top.tokenId)
                          /\ ActiveIn(listingCollectionMap',
                                      listingTokenIdMap', listingActiveMap',
                                      collection, Top.tokenId)
                               = ActiveListingsOf(collection, Top.tokenId)
                                   \cup {last'.ret})
      ]_vars

\* listNFT has succeeded for a token that had an active listing: the token
\* has two
C38_Witness ==
    /\ last.op = "listNFT" /\ last.err = OK /\ last.ret = 2
    /\ ActiveListingsOf(listingCollectionMap[1], listingTokenIdMap[1])
         = {1, 2}

====
